---------------------------- MODULE Spec2Model ----------------------------
(***************************************************************************)
(* A model of @uems/micro-builder's broker layer:                          *)
(*   AbstractBrokerHandler  (connect, connectionErrorHandler,              *)
(*                           setupConnection, onReady, handleIncoming,     *)
(*                           send)                                         *)
(*   RabbitNetworkHandler   (the create/read/update/delete/other hooks and *)
(*                           the per-message reply callback)               *)
(*   the emitter of RabbitNetworkHandler (on, once, emit) and the routing  *)
(*   binders of BindingAnnotations (binder, bindTo, bind)                  *)
(* Every promise continuation of the source is one action: JavaScript runs *)
(* a continuation to its next await without interleaving.                  *)
(***************************************************************************)
EXTENDS Integers, Sequences, FiniteSets, TLC

(***************************************************************************)
(* Bounds of the model.                                                    *)
(***************************************************************************)
\* how many 'error' events one connection object may raise
MaxErrorEvents == 18
\* how many callbacks are ever passed to onReady
NumCallbacks == 2
\* how many topic strings the configuration names
NumTopics == 2
\* how many frames the broker delivers to the consumer
MaxFrames == 2
\* how many subscriptions client code makes on a handler's emitter
NumListeners == 2
\* how many times launchCheck is called
NumLaunches == 2
\* how many calls of trait and tryApplyTrait are made
MaxTraitCalls == 2
\* how many requests the healthcheck servers receive
MaxRequests == 1
\* how many times _clearHealthcheck is called
MaxClears == 1
\* how many comments are created
MaxCreates == 1
\* how many calls of create, delete, query and update are made
MaxDbCalls == 3

Callbacks == 1..NumCallbacks
Topics == 1..NumTopics

(***************************************************************************)
(* Exact decimals.  backoffTime is a JavaScript number that only ever is   *)
(* multiplied by 1.2, so its values are 5000 * 1.2^n: decimals with up to  *)
(* n - 4 fractional digits.  A decimal is <<w, f1, f2>>, standing for      *)
(* w + f1 / Limb + f2 / Limb^2, which is exact for sixteen fractional      *)
(* digits (n <= 20).                                                       *)
(***************************************************************************)
Limb == 10000 * 10000

Dec(n) == <<n, 0, 0>>

DecLE(a, b) ==
    \/ a[1] < b[1]
    \/ a[1] = b[1] /\ a[2] < b[2]
    \/ a[1] = b[1] /\ a[2] = b[2] /\ a[3] <= b[3]

\* Math.min
DecMin(a, b) == IF DecLE(a, b) THEN a ELSE b

DecTimes12(a) ==
    LET t3 == a[3] * 12
        t2 == a[2] * 12 + (t3 \div Limb)
    IN  <<a[1] * 12 + (t2 \div Limb), t2 % Limb, t3 % Limb>>

DecDiv10(a) ==
    <<a[1] \div 10,
      (a[1] % 10) * (Limb \div 10) + (a[2] \div 10),
      (a[2] % 10) * (Limb \div 10) + (a[3] \div 10)>>

\* x * 1.2
TimesGrowth(a) == DecDiv10(DecTimes12(a))

\* let backoffTime = 5000;
InitialBackoffTime == 5000
\* let maximumBackoffTime = 120000;
maximumBackoffTime == 120000

(***************************************************************************)
(* State.  The per-handler fields are functions over the handler           *)
(* instances of the process; backoffTime and the timer queue are           *)
(* module-level, hence process-wide.                                       *)
(***************************************************************************)
VARIABLES
    pc,                 \* per handler: where its connect() promise chain stands
    connected,          \* _connected
    connection,         \* _connection: 0 is undefined, else the connection
    responseChannel,    \* _responseChannel: 0 is undefined, else its connection
    waitingForReady,    \* _waitingForReady
    backoffTime,        \* the module-level backoffTime
    timers,             \* delays of the outstanding setTimeout(this.connect, ..)
    pendingBinds,       \* bindQueue calls of Promise.all not yet resolved
    connErrors,         \* 'error' events the connection object has raised
    connClosed,         \* whether the connection object has raised 'close'
    brokerOps,          \* the broker operations issued, in order
    connectCalls,       \* invocations of the connect function
    attemptFailures,    \* connect rejections and setupConnection throws
    failures,           \* invocations of connectionErrorHandler, process-wide
    lastDelay,          \* the delay given to the latest setTimeout
    errorEvents,        \* emissions on the handler's 'error' channel
    readyEvents,        \* emissions on the handler's 'ready' channel
    cbRegistered,       \* callbacks that have been passed to onReady
    cbCalls,            \* how often each callback has been invoked
    unhandledRejections,\* promises rejected with nobody listening
    inbox,              \* the frames delivered to handleIncoming, in order
    hookCalls,          \* calls of the create/read/update/delete/other hooks
    emitted,            \* emissions on the create/query/update/delete/any channels
    sends,              \* the calls of send(id, intention, response)
    published,          \* what was published on the reply exchange, in order
    events,             \* per handler: _emitter.events, the listeners of a channel
    listeners,          \* what each listener function passed to _emitter.on does
    invoked,            \* the invocations of client callbacks, in order
    brokerHandlerInstance, \* the module-level instance of BindingAnnotations
    activeHealthcheck,  \* the module-level activeHealthcheck: 0 is undefined
    healthchecks,       \* per launchCheck call: the Healthcheck it constructed
    traitCalls,         \* the calls of trait and tryApplyTrait, in order
    responses,          \* what the healthcheck servers have answered, in order
    clears,             \* the calls of _clearHealthcheck
    database,           \* the GenericCommentDatabase: where its connect stands
    details,            \* the details collection of the Mongo server
    changelog,          \* the changelog collection of the Mongo server
    dbCalls             \* the calls of create, delete, query and update

connVars == <<pc, connected, connection, responseChannel, waitingForReady,
              backoffTime, timers, pendingBinds, connErrors, connClosed,
              brokerOps, connectCalls, attemptFailures, failures, lastDelay,
              errorEvents, readyEvents, cbRegistered, cbCalls,
              unhandledRejections>>

emitterVars == <<events, listeners, invoked, brokerHandlerInstance>>

healthVars == <<activeHealthcheck, healthchecks, traitCalls, responses, clears>>

dbVars == <<database, details, changelog, dbCalls>>

serviceVars == <<healthVars, dbVars>>

dispatchVars == <<inbox, hookCalls, emitted, sends, published, emitterVars,
                  serviceVars>>

vars == <<connVars, dispatchVars>>

SetupSteps == {"createChannel1", "assertGateway", "createChannel2",
               "assertRequest", "assertQueue", "bindQueues", "consume"}

\* the channels of RabbitNetworkHandlerEvents that carry messages
Channels == {"create", "delete", "query", "update", "any"}

\* a listener id that no on() call has used yet
NoListener == [how |-> "none"]

\* the 'error' and 'close' listeners are on the connection once
\* setupConnection has started
ListenersAttached(h) == connection[h] # 0

(***************************************************************************)
(* The module state of Healthcheck.ts before any call: activeHealthcheck   *)
(* is undefined and no Healthcheck has been constructed.                   *)
(***************************************************************************)
NoHealthcheck == [state |-> "none"]

InitHealthcheck ==
    /\ activeHealthcheck = 0
    /\ healthchecks = [s \in 1..NumLaunches |-> NoHealthcheck]
    /\ traitCalls = <<>>
    /\ responses = <<>>
    /\ clears = 0

\* null and undefined; a value that is present
Null == <<>>
Some(v) == <<v>>

\* the asset types that exist, and those this database was constructed for
AssetTypes == {"validAsset", "otherAsset"}
_assetType == <<"validAsset">>

\* what the details collection holds before the service starts: a comment
\* of this service's asset type and one of another service's
Seeds ==
    <<[assetType |-> "validAsset", requiredAttention |-> FALSE,
       attendedBy |-> Null, attendedAt |-> Null,
       topic |-> Some("topic"), body |-> Some("body")],
      [assetType |-> "otherAsset", requiredAttention |-> FALSE,
       attendedBy |-> Null, attendedAt |-> Null,
       topic |-> Some("topic"), body |-> Some("body")]>>

\* the object ids the Mongo server can hold or generate
ObjectIds == 1..(Len(Seeds) + MaxCreates)

(***************************************************************************)
(* new GenericCommentDatabase(assetType, configuration): the constructor   *)
(* has called MongoClient.connect, which has not answered yet.             *)
(***************************************************************************)
InitDatabase ==
    /\ database = "connecting"
    /\ details = [oid \in ObjectIds |->
                    IF oid <= Len(Seeds) THEN Some(Seeds[oid]) ELSE Null]
    /\ changelog = <<>>
    /\ dbCalls = <<>>

InitServices ==
    /\ InitHealthcheck
    /\ InitDatabase

(***************************************************************************)
(* new RabbitNetworkHandler(...): the constructor calls connect(), which   *)
(* invokes the connect function at once.                                   *)
(***************************************************************************)
InitConn(H) ==
    /\ pc = [h \in H |-> "connecting"]
    /\ connected = [h \in H |-> FALSE]
    /\ connection = [h \in H |-> 0]
    /\ responseChannel = [h \in H |-> 0]
    /\ waitingForReady = [h \in H |-> <<>>]
    /\ backoffTime = Dec(InitialBackoffTime)
    /\ timers = <<>>
    /\ pendingBinds = [h \in H |-> {}]
    /\ connErrors = [h \in H |-> 0]
    /\ connClosed = [h \in H |-> FALSE]
    /\ brokerOps = [h \in H |-> <<>>]
    /\ connectCalls = [h \in H |-> 1]
    /\ attemptFailures = [h \in H |-> 0]
    /\ failures = 0
    /\ lastDelay = Dec(0)
    /\ errorEvents = [h \in H |-> 0]
    /\ readyEvents = [h \in H |-> 0]
    /\ cbRegistered = {}
    /\ cbCalls = [c \in Callbacks |-> 0]
    /\ unhandledRejections = 0
    /\ inbox = <<>>
    /\ hookCalls = <<>>
    /\ emitted = <<>>
    /\ sends = <<>>
    /\ published = <<>>
    /\ events = [h \in H |-> [ch \in Channels |-> <<>>]]
    /\ listeners = [l \in 1..NumListeners |-> NoListener]
    /\ invoked = <<>>
    /\ brokerHandlerInstance = 0
    /\ InitServices

\* connectionErrorHandler without the Math.min: the timer gets backoffTime
connectionErrorHandlerUncapped(h, before) ==
    /\ timers' = Append(timers, backoffTime)
    /\ lastDelay' = backoffTime
    /\ backoffTime' = TimesGrowth(backoffTime)
    /\ failures' = failures + 1
    /\ errorEvents' = [errorEvents EXCEPT ![h] = @ + before + 1]

\* 5000 * 1.2^n
RECURSIVE BackoffAfter(_)
BackoffAfter(n) ==
    IF n = 0 THEN Dec(5000) ELSE TimesGrowth(BackoffAfter(n - 1))

\* a backoff kept per handler instance (a field, not the module-level let):
\* the delay grows with the failures of this instance only
connectionErrorHandlerPerInstance(h, before) ==
    /\ timers' = Append(timers,
           DecMin(BackoffAfter(attemptFailures[h] + connErrors[h]),
                  Dec(maximumBackoffTime)))
    /\ lastDelay' = DecMin(BackoffAfter(attemptFailures[h] + connErrors[h]),
                           Dec(maximumBackoffTime))
    /\ backoffTime' = TimesGrowth(backoffTime)
    /\ failures' = failures + 1
    /\ errorEvents' = [errorEvents EXCEPT ![h] = @ + before + 1]

(***************************************************************************)
(* connectionErrorHandler: arm the timer with the capped delay, grow the   *)
(* delay, emit 'error'.  `before` counts the 'error' emissions the caller  *)
(* made first (the catch of connect() emits one itself).                   *)
(***************************************************************************)
connectionErrorHandler(h, before) ==
    /\ timers' = Append(timers, DecMin(backoffTime, Dec(maximumBackoffTime)))
    /\ lastDelay' = DecMin(backoffTime, Dec(maximumBackoffTime))
    /\ backoffTime' = TimesGrowth(backoffTime)
    /\ failures' = failures + 1
    /\ errorEvents' = [errorEvents EXCEPT ![h] = @ + before + 1]

\* a .catch of connect() that only emits the error and never calls
\* connectionErrorHandler
ConnectCatchWithoutReconnect(h) ==
    /\ pc' = [pc EXCEPT ![h] = "failed"]
    /\ attemptFailures' = [attemptFailures EXCEPT ![h] = @ + 1]
    /\ errorEvents' = [errorEvents EXCEPT ![h] = @ + 1]
    /\ UNCHANGED <<timers, lastDelay, backoffTime, failures>>

\* the .catch of connect(): this.error(...), then connectionErrorHandler
ConnectCatch(h) ==
    /\ pc' = [pc EXCEPT ![h] = "failed"]
    /\ attemptFailures' = [attemptFailures EXCEPT ![h] = @ + 1]
    /\ connectionErrorHandler(h, 1)

\* the connect function's promise rejects
ConnectRejects(h) ==
    /\ pc[h] = "connecting"
    /\ ConnectCatch(h)
    /\ UNCHANGED <<connected, connection, responseChannel, waitingForReady,
                   pendingBinds, connErrors, connClosed, brokerOps,
                   connectCalls, readyEvents, cbRegistered, cbCalls,
                   unhandledRejections>>
    /\ UNCHANGED dispatchVars

\* the connect function's promise resolves: _connection is set and
\* setupConnection runs to its first await (listeners on, createChannel issued)
ConnectResolves(h) ==
    /\ pc[h] = "connecting"
    /\ connection' = [connection EXCEPT ![h] = connectCalls[h]]
    /\ brokerOps' = [brokerOps EXCEPT ![h] = Append(@, <<"createChannel">>)]
    /\ pc' = [pc EXCEPT ![h] = "createChannel1"]
    /\ UNCHANGED <<connected, responseChannel, waitingForReady, backoffTime,
                   timers, pendingBinds, connErrors, connClosed, connectCalls,
                   attemptFailures, failures, lastDelay, errorEvents,
                   readyEvents, cbRegistered, cbCalls, unhandledRejections>>
    /\ UNCHANGED dispatchVars


\* the connect function resolves with a falsy value: setupConnection throws
\* 'invalid connection parameter' before it attaches anything
ConnectResolvesFalsy(h) ==
    /\ pc[h] = "connecting"
    /\ ConnectCatch(h)
    /\ UNCHANGED <<connected, connection, responseChannel, waitingForReady,
                   pendingBinds, connErrors, connClosed, brokerOps,
                   connectCalls, readyEvents, cbRegistered, cbCalls,
                   unhandledRejections>>
    /\ UNCHANGED dispatchVars

(***************************************************************************)
(* setupConnection, one action per await that resolves.  Each issues the   *)
(* next broker operation and suspends on it.                               *)
(***************************************************************************)
SetupFrame ==
    UNCHANGED <<dispatchVars, connected, connection, waitingForReady, backoffTime, timers,
                connErrors, connClosed, connectCalls, attemptFailures,
                failures, lastDelay, errorEvents, readyEvents, cbRegistered,
                cbCalls, unhandledRejections>>

\* this._responseChannel = await this._connection.createChannel();
CreateResponseChannelOk(h) ==
    /\ pc[h] = "createChannel1"
    /\ responseChannel' = [responseChannel EXCEPT ![h] = connection[h]]
    /\ brokerOps' = [brokerOps EXCEPT ![h] =
                        Append(@, <<"assertExchange", "gateway", "direct">>)]
    /\ pc' = [pc EXCEPT ![h] = "assertGateway"]
    /\ UNCHANGED pendingBinds
    /\ SetupFrame

\* await this._responseChannel.assertExchange(gateway, 'direct');
AssertGatewayOk(h) ==
    /\ pc[h] = "assertGateway"
    /\ brokerOps' = [brokerOps EXCEPT ![h] = Append(@, <<"createChannel">>)]
    /\ pc' = [pc EXCEPT ![h] = "createChannel2"]
    /\ UNCHANGED <<responseChannel, pendingBinds>>
    /\ SetupFrame

\* const requestChannel = await this._connection.createChannel();
CreateRequestChannelOk(h) ==
    /\ pc[h] = "createChannel2"
    /\ brokerOps' = [brokerOps EXCEPT ![h] =
                        Append(@, <<"assertExchange", "request", "topic",
                                    "durable=false">>)]
    /\ pc' = [pc EXCEPT ![h] = "assertRequest"]
    /\ UNCHANGED <<responseChannel, pendingBinds>>
    /\ SetupFrame

\* await requestChannel.assertExchange(request, 'topic', {durable: false});
AssertRequestOk(h) ==
    /\ pc[h] = "assertRequest"
    /\ brokerOps' = [brokerOps EXCEPT ![h] =
                        Append(@, <<"assertQueue", "inbox", "exclusive=false">>)]
    /\ pc' = [pc EXCEPT ![h] = "assertQueue"]
    /\ UNCHANGED <<responseChannel, pendingBinds>>
    /\ SetupFrame

\* topics.map((topic) => requestChannel.bindQueue(..., topic)), in order
RECURSIVE BindCalls(_)
BindCalls(n) ==
    IF n = 0 THEN <<>> ELSE Append(BindCalls(n - 1), <<"bindQueue", n>>)

\* const inbox = await requestChannel.assertQueue(inbox, {exclusive: false});
\* then every bindQueue is issued and Promise.all awaited
AssertQueueOk(h) ==
    /\ pc[h] = "assertQueue"
    /\ brokerOps' = [brokerOps EXCEPT ![h] = @ \o BindCalls(NumTopics)]
    /\ pendingBinds' = [pendingBinds EXCEPT ![h] = Topics]
    /\ pc' = [pc EXCEPT ![h] = "bindQueues"]
    /\ UNCHANGED responseChannel
    /\ SetupFrame

\* one bindQueue promise resolves
BindQueueOk(h, t) ==
    /\ pc[h] = "bindQueues"
    /\ t \in pendingBinds[h]
    /\ pendingBinds' = [pendingBinds EXCEPT ![h] = @ \ {t}]
    /\ UNCHANGED <<pc, responseChannel, brokerOps>>
    /\ SetupFrame

\* consume issued without awaiting Promise.all of the bindQueue calls
BindingsDoneUnawaited(h) ==
    /\ pc[h] = "bindQueues"
    /\ brokerOps' = [brokerOps EXCEPT ![h] = Append(@, <<"consume", "inbox">>)]
    /\ pc' = [pc EXCEPT ![h] = "consume"]
    /\ UNCHANGED <<responseChannel, pendingBinds>>
    /\ SetupFrame

\* await Promise.all(...) resolves; requestChannel.consume is issued
BindingsDone(h) ==
    /\ pc[h] = "bindQueues"
    /\ pendingBinds[h] = {}
    /\ brokerOps' = [brokerOps EXCEPT ![h] = Append(@, <<"consume", "inbox">>)]
    /\ pc' = [pc EXCEPT ![h] = "consume"]
    /\ UNCHANGED <<responseChannel, pendingBinds>>
    /\ SetupFrame

\* this._waitingForReady.forEach((e) => e());
InvokeWaiting(h) ==
    [c \in Callbacks |->
        cbCalls[c] + Cardinality({i \in 1..Len(waitingForReady[h]) :
                                     waitingForReady[h][i] = c})]

\* a setupConnection that puts backoffTime back to its initial value when
\* it completes
SetupCompletesResetsBackoff(h) ==
    /\ pc[h] = "consume"
    /\ connected' = [connected EXCEPT ![h] = TRUE]
    /\ cbCalls' = InvokeWaiting(h)
    /\ readyEvents' = [readyEvents EXCEPT ![h] = @ + 1]
    /\ pc' = [pc EXCEPT ![h] = "done"]
    /\ backoffTime' = Dec(InitialBackoffTime)
    /\ UNCHANGED <<connection, responseChannel, waitingForReady,
                   timers, pendingBinds, connErrors, connClosed, brokerOps,
                   connectCalls, attemptFailures, failures, lastDelay,
                   errorEvents, cbRegistered, unhandledRejections>>
    /\ UNCHANGED dispatchVars

\* await requestChannel.consume(...) resolves: _connected = true, the
\* waiting callbacks are called, ready() is emitted
SetupCompletes(h) ==
    /\ pc[h] = "consume"
    /\ connected' = [connected EXCEPT ![h] = TRUE]
    /\ cbCalls' = InvokeWaiting(h)
    /\ readyEvents' = [readyEvents EXCEPT ![h] = @ + 1]
    /\ pc' = [pc EXCEPT ![h] = "done"]
    /\ UNCHANGED <<connection, responseChannel, waitingForReady, backoffTime,
                   timers, pendingBinds, connErrors, connClosed, brokerOps,
                   connectCalls, attemptFailures, failures, lastDelay,
                   errorEvents, cbRegistered, unhandledRejections>>
    /\ UNCHANGED dispatchVars

\* the awaited operation rejects (for Promise.all: one of the pending
\* bindQueue calls): setupConnection throws into the catch of connect()
SetupFails(h) ==
    /\ pc[h] \in SetupSteps
    /\ pc[h] = "bindQueues" => pendingBinds[h] # {}
    /\ ConnectCatch(h)
    /\ UNCHANGED <<connected, connection, responseChannel, waitingForReady,
                   pendingBinds, connErrors, connClosed, brokerOps,
                   connectCalls, readyEvents, cbRegistered, cbCalls,
                   unhandledRejections>>
    /\ UNCHANGED dispatchVars

(***************************************************************************)
(* Events of the connection object, delivered to the listeners that        *)
(* setupConnection attached.                                               *)
(***************************************************************************)
\* this._connection.on('error', this.connectionErrorHandler)
ConnectionError(h) ==
    /\ ListenersAttached(h)
    /\ ~connClosed[h]
    /\ connErrors[h] < MaxErrorEvents
    /\ connErrors' = [connErrors EXCEPT ![h] = @ + 1]
    /\ connectionErrorHandler(h, 0)
    /\ UNCHANGED <<pc, connected, connection, responseChannel,
                   waitingForReady, pendingBinds, connClosed, brokerOps,
                   connectCalls, attemptFailures, readyEvents, cbRegistered,
                   cbCalls, unhandledRejections>>
    /\ UNCHANGED dispatchVars

\* this._connection.on('close', () => { this._connected = false; ... })
ConnectionClose(h) ==
    /\ ListenersAttached(h)
    /\ ~connClosed[h]
    /\ connClosed' = [connClosed EXCEPT ![h] = TRUE]
    /\ connected' = [connected EXCEPT ![h] = FALSE]
    /\ errorEvents' = [errorEvents EXCEPT ![h] = @ + 1]
    /\ UNCHANGED <<pc, connection, responseChannel, waitingForReady,
                   backoffTime, timers, pendingBinds, connErrors, brokerOps,
                   connectCalls, attemptFailures, failures, lastDelay,
                   readyEvents, cbRegistered, cbCalls, unhandledRejections>>
    /\ UNCHANGED dispatchVars

(***************************************************************************)
(* The reconnect timer expires.  setTimeout was given this.connect, a      *)
(* prototype method, so connect runs with `this` being the timer (or       *)
(* undefined), not the handler: evaluating this._configuration.options     *)
(* throws a TypeError before the connect function is called.  connect is   *)
(* async, so the throw is a rejected promise that nobody handles.  Delays  *)
(* never shrink, so timers expire in the order they were armed.            *)
(***************************************************************************)
TimerExpires ==
    /\ timers # <<>>
    /\ timers' = Tail(timers)
    /\ unhandledRejections' = unhandledRejections + 1
    /\ UNCHANGED <<pc, connected, connection, responseChannel,
                   waitingForReady, backoffTime, pendingBinds, connErrors,
                   connClosed, brokerOps, connectCalls, attemptFailures,
                   failures, lastDelay, errorEvents, readyEvents,
                   cbRegistered, cbCalls>>
    /\ UNCHANGED dispatchVars

(***************************************************************************)
(* onReady(x): call x now when _connected, else queue it.                  *)
(***************************************************************************)
onReady(h, c) ==
    /\ c \notin cbRegistered
    /\ cbRegistered' = cbRegistered \cup {c}
    /\ IF connected[h]
          THEN /\ cbCalls' = [cbCalls EXCEPT ![c] = @ + 1]
               /\ UNCHANGED waitingForReady
          ELSE /\ waitingForReady' =
                      [waitingForReady EXCEPT ![h] = Append(@, c)]
               /\ UNCHANGED cbCalls
    /\ UNCHANGED <<pc, connected, connection, responseChannel, backoffTime,
                   timers, pendingBinds, connErrors, connClosed, brokerOps,
                   connectCalls, attemptFailures, failures, lastDelay,
                   errorEvents, readyEvents, unhandledRejections>>
    /\ UNCHANGED dispatchVars

NextConn(H) ==
    \/ \E h \in H : ConnectRejects(h)
    \/ \E h \in H : ConnectResolves(h)
    \/ \E h \in H : ConnectResolvesFalsy(h)
    \/ \E h \in H : CreateResponseChannelOk(h)
    \/ \E h \in H : AssertGatewayOk(h)
    \/ \E h \in H : CreateRequestChannelOk(h)
    \/ \E h \in H : AssertRequestOk(h)
    \/ \E h \in H : AssertQueueOk(h)
    \/ \E h \in H, t \in Topics : BindQueueOk(h, t)
    \/ \E h \in H : BindingsDone(h)
    \/ \E h \in H : SetupCompletes(h)
    \/ \E h \in H : SetupFails(h)
    \/ \E h \in H : ConnectionError(h)
    \/ \E h \in H : ConnectionClose(h)
    \/ \E h \in H, c \in Callbacks : onReady(h, c)
    \/ TimerExpires

\* one handler instance in the process
Init == InitConn({1})

Next == NextConn({1})

Spec == Init /\ [][Next]_vars


(***************************************************************************)
(* Inbound frames.  The broker delivers bytes and a routing key;           *)
(* JSON.parse turns the bytes into a value or throws.  A routing key is    *)
(* its dot-separated words.                                                *)
(***************************************************************************)
SyntaxError == [type |-> "SyntaxError"]
JSONNull == [type |-> "null"]
JSONObject(id, has, intention) ==
    [type |-> "object", msg_id |-> id, has_intention |-> has,
     msg_intention |-> intention]

\* JSON.parse(message.content.toString())
JSONParse(bytes) ==
    CASE bytes = "null" -> JSONNull
      [] bytes = "{\"msg_id\":1,\"msg_intention\":\"CREATE\",\"status\":0}"
            -> JSONObject(1, TRUE, "CREATE")
      [] bytes = "{\"msg_id\":2,\"msg_intention\":\"READ\",\"status\":0}"
            -> JSONObject(2, TRUE, "READ")
      [] bytes = "{\"msg_id\":3,\"msg_intention\":\"UPDATE\",\"status\":0}"
            -> JSONObject(3, TRUE, "UPDATE")
      [] bytes = "{\"msg_id\":4,\"msg_intention\":\"DELETE\",\"status\":0}"
            -> JSONObject(4, TRUE, "DELETE")
      [] bytes = "{\"msg_id\":5,\"msg_intention\":\"PING\",\"status\":0}"
            -> JSONObject(5, TRUE, "PING")
      [] bytes = "{\"msg_id\":6,\"status\":0}"
            -> JSONObject(6, FALSE, "undefined")
      [] OTHER -> SyntaxError

\* what a DataValidator call may do
ValidatorOutcomes == {"true", "false", "throws"}

(***************************************************************************)
(* handleIncoming up to its await: parse the frame and call the incoming   *)
(* validator.  A frame that does not parse is logged and dropped.          *)
(***************************************************************************)
handleIncoming(h, bytes, routingKey) ==
    /\ pc[h] = "done"
    /\ Len(inbox) < MaxFrames
    /\ inbox' = Append(inbox,
                  [handler |-> h,
                   bytes |-> bytes,
                   routingKey |-> routingKey,
                   content |-> JSONParse(bytes),
                   stage |-> IF JSONParse(bytes) = SyntaxError
                                THEN "dropped" ELSE "validating",
                   validator |-> "none"])
    /\ UNCHANGED <<connVars, serviceVars, hookCalls, emitted, sends, published,
                   emitterVars>>

\* a switch of handleIncoming that sends a content without msg_intention
\* to create
HookOfMissingAsCreate(content) ==
    IF content.has_intention
       THEN CASE content.msg_intention = "CREATE" -> "create"
              [] content.msg_intention = "UPDATE" -> "update"
              [] content.msg_intention = "DELETE" -> "delete"
              [] content.msg_intention = "READ" -> "read"
              [] OTHER -> "other"
       ELSE "create"

\* the switch of handleIncoming: which hook a validated content goes to
HookOf(content) ==
    IF content.has_intention
       THEN CASE content.msg_intention = "CREATE" -> "create"
              [] content.msg_intention = "UPDATE" -> "update"
              [] content.msg_intention = "DELETE" -> "delete"
              [] content.msg_intention = "READ" -> "read"
              [] OTHER -> "other"
       ELSE "other"

\* hooks of which read emits on 'any'
ChannelOfReadOnAny(hook) ==
    CASE hook = "create" -> "create"
      [] hook = "delete" -> "delete"
      [] hook = "update" -> "update"
      [] hook = "read" -> "any"
      [] hook = "other" -> "any"

\* RabbitNetworkHandler.create/delete/update/read/other: the channel of
\* this._emitter.emit
ChannelOf(hook) ==
    CASE hook = "create" -> "create"
      [] hook = "delete" -> "delete"
      [] hook = "update" -> "update"
      [] hook = "read" -> "query"
      [] hook = "other" -> "any"

(***************************************************************************)
(* Routing key matchers of BindingAnnotations: string | RegExp | ANY.      *)
(* The regular expressions of the model are anchored prefixes, /^foo\./.   *)
(***************************************************************************)
KeyString(words) == [typeof |-> "string", value |-> words]
KeyRegExp(words) == [typeof |-> "object", source |-> words]
ANY == [typeof |-> "symbol"]

\* routingKey.test(routing) of /^w1\.w2\. .. \./
RegExpTest(re, routing) ==
    /\ Len(re.source) < Len(routing)
    /\ \A k \in 1..Len(re.source) : routing[k] = re.source[k]

\* neither `return` of the listener of bindTo and bind is taken
RoutingKeyPasses(routingKey, routing) ==
    /\ ~(routingKey.typeof = "string" /\ routing # routingKey.value)
    /\ ~(routingKey.typeof = "object" /\ ~RegExpTest(routingKey, routing))

\* evt.msg_intention
IntentionOf(content) ==
    IF content.has_intention THEN content.msg_intention ELSE "undefined"

\* one of the four `throw new Error('Invalid message received ..')` of bindTo
IntentionMismatch(action, content) ==
    \/ action = "create" /\ IntentionOf(content) # "CREATE"
    \/ action = "delete" /\ IntentionOf(content) # "DELETE"
    \/ action = "query" /\ IntentionOf(content) # "READ"
    \/ action = "update" /\ IntentionOf(content) # "UPDATE"

(***************************************************************************)
(* Emission.  A hook calls this._emitter.emit, which calls the listeners   *)
(* of the channel one after the other, synchronously, over the array the   *)
(* channel had when emit started (an unbind replaces the array by a        *)
(* filtered copy).  A listener that throws ends the emit: the exception    *)
(* goes to the caller of the hook.  What a listener returns is dropped.    *)
(* An emission is computed over a record st of the variables it changes,   *)
(* with st.thrown telling an exception is propagating and st.rejections    *)
(* counting the rejected promises nobody holds.                            *)
(***************************************************************************)
Remove(arr, l) == SelectSeq(arr, LAMBDA x : x # l)

RECURSIVE Hook(_, _, _, _)
RECURSIVE EmitFrom(_, _, _, _, _, _)
RECURSIVE Callback(_, _, _, _)

\* the client callback of listener l is called with delivery i.  A callback
\* that forwards calls a hook of the handler with the message it got, the
\* first time it is called.
Callback(st, h, l, i) ==
    LET first == \A k \in 1..Len(st.invoked) : st.invoked[k][1] # l
        st1 == [st EXCEPT !.invoked = Append(@, <<l, i>>)]
    IN  CASE listeners[l].does = "returns" -> st1
          \* a promise that never settles: emit drops it like any return
          [] listeners[l].does = "pending" -> st1
          \* a callback of bindCommentDatabase: it returns the promise of
          \* execute, or Promise.resolve()
          [] listeners[l].does = "execute" -> st1
          [] listeners[l].does = "throws" -> [st1 EXCEPT !.thrown = TRUE]
          [] listeners[l].does = "rejects" ->
                [st1 EXCEPT !.rejections = @ + 1]
          [] listeners[l].does = "forwards" ->
                IF first THEN Hook(st1, h, listeners[l].to, i) ELSE st1

\* the listener bind() registers
BindListener(st, h, l, i) ==
    IF ~RoutingKeyPasses(listeners[l].routingKey, inbox[i].routingKey)
       THEN st
       ELSE Callback(st, h, l, i)

\* the listener bindTo() registers
BindToListener(st, h, l, i) ==
    IF ~RoutingKeyPasses(listeners[l].routingKey, inbox[i].routingKey)
       THEN st
       ELSE IF IntentionMismatch(listeners[l].event, inbox[i].content)
               THEN [st EXCEPT !.thrown = TRUE]
               ELSE Callback(st, h, l, i)

\* the listener once() registers: unbind(), then the callback
OnceListener(st, h, l, ch, i) ==
    Callback([st EXCEPT !.events[h][ch] = Remove(@, l)], h, l, i)

\* the function _emitter.on was given for listener l
Listener(st, h, l, ch, i) ==
    CASE listeners[l].how = "on" -> Callback(st, h, l, i)
      [] listeners[l].how = "once" -> OnceListener(st, h, l, ch, i)
      [] listeners[l].how = "bindTo" -> BindToListener(st, h, l, i)
      [] listeners[l].how = "bind" -> BindListener(st, h, l, i)

\* the loop of emit over arr, from position k
EmitFrom(st, h, arr, k, ch, i) ==
    IF k > Len(arr) \/ st.thrown
       THEN st
       ELSE EmitFrom(Listener(st, h, arr[k], ch, i), h, arr, k + 1, ch, i)

\* this.create / delete / update / read / other (message, routingKey)
Hook(st, h, hook, i) ==
    EmitFrom([st EXCEPT !.hookCalls = Append(@, <<hook, i>>),
                        !.emitted = Append(@, <<ChannelOf(hook), i>>)],
             h, st.events[h][ChannelOf(hook)], 1, ChannelOf(hook), i)

\* the variables an emission may change, before it
Emission ==
    [events |-> events, invoked |-> invoked, emitted |-> emitted,
     hookCalls |-> hookCalls, thrown |-> FALSE, rejections |-> 0]

\* the deliveries with a handler whose promise has not settled
HandlersRunning ==
    {j \in 1..Len(inbox) :
        \E k \in 1..Len(invoked) :
            invoked[k][2] = j /\ listeners[invoked[k][1]].does = "pending"}

\* a consumer that awaits the handlers of a message before it dispatches
\* the next one
IncomingValidatedAfterHandlers(i, outcome) ==
    /\ i \in 1..Len(inbox)
    /\ inbox[i].stage = "validating"
    /\ HandlersRunning = {}
    /\ CASE outcome = "false" ->
              /\ inbox' = [inbox EXCEPT ![i].stage = "dropped",
                                        ![i].validator = outcome]
              /\ UNCHANGED <<hookCalls, emitted, events, invoked,
                             unhandledRejections>>
         [] outcome = "throws" \/ inbox[i].content = JSONNull ->
              /\ inbox' = [inbox EXCEPT ![i].stage = "rejected",
                                        ![i].validator = outcome]
              /\ unhandledRejections' = unhandledRejections + 1
              /\ UNCHANGED <<hookCalls, emitted, events, invoked>>
         [] OTHER ->
              LET r == Hook(Emission, inbox[i].handler,
                            HookOf(inbox[i].content), i)
              IN  /\ inbox' = [inbox EXCEPT
                                 ![i].stage = IF r.thrown THEN "threw"
                                                          ELSE "dispatched",
                                 ![i].validator = outcome]
                  /\ hookCalls' = r.hookCalls
                  /\ emitted' = r.emitted
                  /\ events' = r.events
                  /\ invoked' = r.invoked
                  /\ unhandledRejections' = unhandledRejections
                         + r.rejections + (IF r.thrown THEN 1 ELSE 0)
    /\ UNCHANGED <<pc, connected, connection, responseChannel,
                   waitingForReady, backoffTime, timers, pendingBinds,
                   connErrors, connClosed, brokerOps, connectCalls,
                   attemptFailures, failures, lastDelay, errorEvents,
                   readyEvents, cbRegistered, cbCalls, sends, published, serviceVars,
                   listeners, brokerHandlerInstance>>

\* a handleIncoming whose validator check does not return: a content the
\* validator refuses is dispatched like any other
IncomingValidatedNoReturn(i, outcome) ==
    /\ i \in 1..Len(inbox)
    /\ inbox[i].stage = "validating"
    /\ IF outcome = "throws" \/ inbox[i].content = JSONNull
          THEN /\ inbox' = [inbox EXCEPT ![i].stage = "rejected",
                                         ![i].validator = outcome]
               /\ unhandledRejections' = unhandledRejections + 1
               /\ UNCHANGED <<hookCalls, emitted, events, invoked>>
          ELSE LET r == Hook(Emission, inbox[i].handler,
                             HookOf(inbox[i].content), i)
               IN  /\ inbox' = [inbox EXCEPT
                                  ![i].stage = IF r.thrown THEN "threw"
                                                           ELSE "dispatched",
                                  ![i].validator = outcome]
                   /\ hookCalls' = r.hookCalls
                   /\ emitted' = r.emitted
                   /\ events' = r.events
                   /\ invoked' = r.invoked
                   /\ unhandledRejections' = unhandledRejections
                          + r.rejections + (IF r.thrown THEN 1 ELSE 0)
    /\ UNCHANGED <<pc, connected, connection, responseChannel,
                   waitingForReady, backoffTime, timers, pendingBinds,
                   connErrors, connClosed, brokerOps, connectCalls,
                   attemptFailures, failures, lastDelay, errorEvents,
                   readyEvents, cbRegistered, cbCalls, sends, published, serviceVars,
                   listeners, brokerHandlerInstance>>

(***************************************************************************)
(* handleIncoming after `await this._incomingValidator(content)`.  The     *)
(* awaits of different frames may resume in any order.  A validator that   *)
(* throws, hasOwnProperty.call(null, ..) and a listener that throws out of *)
(* the hook (the hook is called before Promise.resolve gets its result, so *)
(* genericErrorHandler is not reached) each reject the promise             *)
(* handleIncoming returned, which the consumer loop does not handle.  The  *)
(* hooks return undefined, so Promise.resolve(..).catch never fires.       *)
(***************************************************************************)
IncomingValidated(i, outcome) ==
    /\ i \in 1..Len(inbox)
    /\ inbox[i].stage = "validating"
    /\ CASE outcome = "false" ->
              /\ inbox' = [inbox EXCEPT ![i].stage = "dropped",
                                        ![i].validator = outcome]
              /\ UNCHANGED <<hookCalls, emitted, events, invoked,
                             unhandledRejections>>
         [] outcome = "throws" \/ inbox[i].content = JSONNull ->
              /\ inbox' = [inbox EXCEPT ![i].stage = "rejected",
                                        ![i].validator = outcome]
              /\ unhandledRejections' = unhandledRejections + 1
              /\ UNCHANGED <<hookCalls, emitted, events, invoked>>
         [] OTHER ->
              LET r == Hook(Emission, inbox[i].handler,
                            HookOf(inbox[i].content), i)
              IN  /\ inbox' = [inbox EXCEPT
                                 ![i].stage = IF r.thrown THEN "threw"
                                                          ELSE "dispatched",
                                 ![i].validator = outcome]
                  /\ hookCalls' = r.hookCalls
                  /\ emitted' = r.emitted
                  /\ events' = r.events
                  /\ invoked' = r.invoked
                  /\ unhandledRejections' = unhandledRejections
                         + r.rejections + (IF r.thrown THEN 1 ELSE 0)
    /\ UNCHANGED <<pc, connected, connection, responseChannel,
                   waitingForReady, backoffTime, timers, pendingBinds,
                   connErrors, connClosed, brokerOps, connectCalls,
                   attemptFailures, failures, lastDelay, errorEvents,
                   readyEvents, cbRegistered, cbCalls, sends, published, serviceVars,
                   listeners, brokerHandlerInstance>>

(***************************************************************************)
(* Subscriptions.  _emitter.on pushes the listener on the channel's array. *)
(***************************************************************************)
Subscribe(h, l, record) ==
    /\ l \in DOMAIN listeners
    /\ listeners[l] = NoListener
    /\ record.event \in Channels
    /\ listeners' = [listeners EXCEPT ![l] = record]
    /\ events' = [events EXCEPT ![h][record.event] = Append(@, l)]
    /\ UNCHANGED <<connVars, serviceVars, inbox, hookCalls, emitted, sends, published,
                   invoked, brokerHandlerInstance>>

\* handler.on(event, callback)
on(h, l, event, does, to) ==
    Subscribe(h, l, [how |-> "on", handler |-> h, event |-> event,
                     routingKey |-> ANY, does |-> does, to |-> to,
                     unbound |-> FALSE])

\* handler.once(event, callback)
once(h, l, event, does, to) ==
    Subscribe(h, l, [how |-> "once", handler |-> h, event |-> event,
                     routingKey |-> ANY, does |-> does, to |-> to,
                     unbound |-> FALSE])

\* bindTo(instance, action, routingKey, f)
bindTo(h, l, action, routingKey, does, to) ==
    Subscribe(h, l, [how |-> "bindTo", handler |-> h, event |-> action,
                     routingKey |-> routingKey, does |-> does, to |-> to,
                     unbound |-> FALSE])

\* a binder(handler) that takes the bindings made so far along
binderMovingBindings(h) ==
    /\ brokerHandlerInstance # h
    /\ brokerHandlerInstance' = h
    /\ events' = [g \in DOMAIN events |-> [ch \in Channels |->
                    IF g = h /\ brokerHandlerInstance # 0
                    THEN events[h][ch] \o events[brokerHandlerInstance][ch]
                    ELSE IF g = brokerHandlerInstance THEN <<>>
                    ELSE events[g][ch]]]
    /\ UNCHANGED <<connVars, serviceVars, inbox, hookCalls, emitted, sends,
                   published, listeners, invoked>>

\* binder(handler)
binder(h) ==
    /\ brokerHandlerInstance # h
    /\ brokerHandlerInstance' = h
    /\ UNCHANGED <<connVars, serviceVars, inbox, hookCalls, emitted, sends, published,
                   events, listeners, invoked>>

\* what bind() throws while there is no instance
NotConfigured ==
    "Binder has not been configured - have you called binder(...) yet?"

\* bind(action, routingKey, f): it throws and registers nothing unless
\* binder() has been called, and else subscribes on the current instance
bind(l, action, routingKey, does, to) ==
    IF brokerHandlerInstance = 0
    THEN /\ l \in DOMAIN listeners
         /\ listeners[l] = NoListener
         /\ listeners' = [listeners EXCEPT ![l] =
                [how |-> "threw", error |-> NotConfigured]]
         /\ UNCHANGED <<connVars, serviceVars, inbox, hookCalls, emitted,
                        sends, published, events, invoked,
                        brokerHandlerInstance>>
    ELSE Subscribe(brokerHandlerInstance, l,
                   [how |-> "bind", handler |-> brokerHandlerInstance,
                    event |-> action, routingKey |-> routingKey,
                    does |-> does, to |-> to, unbound |-> FALSE])

\* the Unsubscribe that on() and once() returned is called
Unsubscribe(l) ==
    /\ l \in DOMAIN listeners
    /\ listeners[l].how \in {"on", "once"}
    /\ ~listeners[l].unbound
    /\ listeners' = [listeners EXCEPT ![l].unbound = TRUE]
    /\ events' = [events EXCEPT
                    ![listeners[l].handler][listeners[l].event] =
                        Remove(@, l)]
    /\ UNCHANGED <<connVars, serviceVars, inbox, hookCalls, emitted, sends, published,
                   invoked, brokerHandlerInstance>>

(***************************************************************************)
(* Replies.  A callback that was called for delivery i holds               *)
(* handleReply(message) and may call it with a response; that calls        *)
(* send(message.msg_id, message.msg_intention, response).                  *)
(***************************************************************************)
\* how many times send is called
MaxReplies == 1

\* the responses a subscriber may pass: one echoing the request's msg_id,
\* one carrying another
ResponseKinds == {"echo", "foreign"}

Response(content, kind) ==
    [msg_id |-> IF kind = "echo" THEN content.msg_id ELSE 0,
     msg_intention |-> content.msg_intention,
     status |-> 200]

\* a send that calls the outgoing validator whether or not there is a
\* response channel
sendWithoutChannelCheck(h, i, messageID, messageIntention, response) ==
    /\ Len(sends) < MaxReplies
    /\ sends' = Append(sends,
                  [handler |-> h,
                   for |-> i,
                   msg_id |-> messageID,
                   msg_intention |-> messageIntention,
                   response |-> response,
                   validator |-> "none",
                   stage |-> "validating"])
    /\ UNCHANGED <<connVars, serviceVars, inbox, hookCalls, emitted, published,
                   emitterVars>>

\* send up to its await: without a response channel it logs and returns,
\* else it calls the outgoing validator.  i is the delivery the call
\* answers, 0 when send is called by a subclass on its own.
send(h, i, messageID, messageIntention, response) ==
    /\ Len(sends) < MaxReplies
    /\ sends' = Append(sends,
                  [handler |-> h,
                   for |-> i,
                   msg_id |-> messageID,
                   msg_intention |-> messageIntention,
                   response |-> response,
                   validator |-> "none",
                   stage |-> IF responseChannel[h] = 0
                                THEN "no-channel" ELSE "validating"])
    /\ UNCHANGED <<connVars, serviceVars, inbox, hookCalls, emitted, published,
                   emitterVars>>

\* the reply callback of delivery i is called with a response
handleReply(i, kind) ==
    /\ i \in 1..Len(inbox)
    /\ \E k \in 1..Len(invoked) : invoked[k][2] = i
    /\ send(inbox[i].handler, i, inbox[i].content.msg_id,
            inbox[i].content.msg_intention, Response(inbox[i].content, kind))

\* the substitute of send for a response the outgoing validator refuses
\* (constants.HTTP_STATUS_INTERNAL_SERVER_ERROR)
HTTP_STATUS_INTERNAL_SERVER_ERROR == 500

Fallback(s) ==
    [msg_id |-> s.msg_id, msg_intention |-> s.msg_intention,
     status |-> HTTP_STATUS_INTERNAL_SERVER_ERROR]

\* a send whose refusal branch does not return: the refused response is
\* published after the substitute
OutgoingValidatedNoReturn(k, outcome) ==
    /\ k \in 1..Len(sends)
    /\ sends[k].stage = "validating"
    /\ CASE outcome = "true" ->
              /\ published' = Append(published,
                                [for |-> sends[k].for, send |-> k,
                                 body |-> sends[k].response])
              /\ sends' = [sends EXCEPT ![k].stage = "published",
                                        ![k].validator = outcome]
              /\ UNCHANGED unhandledRejections
         [] outcome = "false" ->
              /\ published' = published \o
                                <<[for |-> sends[k].for, send |-> k,
                                   body |-> Fallback(sends[k])],
                                  [for |-> sends[k].for, send |-> k,
                                   body |-> sends[k].response]>>
              /\ sends' = [sends EXCEPT ![k].stage = "fallback",
                                        ![k].validator = outcome]
              /\ UNCHANGED unhandledRejections
         [] OTHER ->
              /\ sends' = [sends EXCEPT ![k].stage = "rejected",
                                        ![k].validator = outcome]
              /\ unhandledRejections' = unhandledRejections + 1
              /\ UNCHANGED published
    /\ UNCHANGED <<pc, connected, connection, responseChannel,
                   waitingForReady, backoffTime, timers, pendingBinds,
                   connErrors, connClosed, brokerOps, connectCalls,
                   attemptFailures, failures, lastDelay, errorEvents,
                   readyEvents, cbRegistered, cbCalls, inbox, hookCalls, serviceVars,
                   emitted, emitterVars>>

\* send after `await this._outgoingValidator(response)`
OutgoingValidated(k, outcome) ==
    /\ k \in 1..Len(sends)
    /\ sends[k].stage = "validating"
    /\ CASE outcome = "true" ->
              /\ published' = Append(published,
                                [for |-> sends[k].for, send |-> k,
                                 body |-> sends[k].response])
              /\ sends' = [sends EXCEPT ![k].stage = "published",
                                        ![k].validator = outcome]
              /\ UNCHANGED unhandledRejections
         [] outcome = "false" ->
              /\ published' = Append(published,
                                [for |-> sends[k].for, send |-> k,
                                 body |-> Fallback(sends[k])])
              /\ sends' = [sends EXCEPT ![k].stage = "fallback",
                                        ![k].validator = outcome]
              /\ UNCHANGED unhandledRejections
         [] OTHER ->
              /\ sends' = [sends EXCEPT ![k].stage = "rejected",
                                        ![k].validator = outcome]
              /\ unhandledRejections' = unhandledRejections + 1
              /\ UNCHANGED published
    /\ UNCHANGED <<pc, connected, connection, responseChannel,
                   waitingForReady, backoffTime, timers, pendingBinds,
                   connErrors, connClosed, brokerOps, connectCalls,
                   attemptFailures, failures, lastDelay, errorEvents,
                   readyEvents, cbRegistered, cbCalls, inbox, hookCalls, serviceVars,
                   emitted, emitterVars>>

(***************************************************************************)
(* The dispatcher of a handler whose first connection attempt went         *)
(* through: the state SetupCompletes leaves when nothing failed.  Client   *)
(* code has subscribed to the channels as the listeners given.             *)
(***************************************************************************)
ReadyHandlers(H, ls, evs) ==
    /\ pc = [h \in H |-> "done"]
    /\ connected = [h \in H |-> TRUE]
    /\ connection = [h \in H |-> 1]
    /\ responseChannel = [h \in H |-> 1]
    /\ waitingForReady = [h \in H |-> <<>>]
    /\ backoffTime = Dec(InitialBackoffTime)
    /\ timers = <<>>
    /\ pendingBinds = [h \in H |-> {}]
    /\ connErrors = [h \in H |-> 0]
    /\ connClosed = [h \in H |-> FALSE]
    /\ brokerOps = [h \in H |->
            <<<<"createChannel">>, <<"assertExchange", "gateway", "direct">>,
              <<"createChannel">>,
              <<"assertExchange", "request", "topic", "durable=false">>,
              <<"assertQueue", "inbox", "exclusive=false">>>>
            \o BindCalls(NumTopics) \o <<<<"consume", "inbox">>>>]
    /\ connectCalls = [h \in H |-> 1]
    /\ attemptFailures = [h \in H |-> 0]
    /\ failures = 0
    /\ lastDelay = Dec(0)
    /\ errorEvents = [h \in H |-> 0]
    /\ readyEvents = [h \in H |-> 1]
    /\ cbRegistered = {}
    /\ cbCalls = [c \in Callbacks |-> 0]
    /\ unhandledRejections = 0
    /\ inbox = <<>>
    /\ hookCalls = <<>>
    /\ emitted = <<>>
    /\ sends = <<>>
    /\ published = <<>>
    /\ events = [h \in H |-> evs]
    /\ listeners = ls
    /\ invoked = <<>>
    /\ brokerHandlerInstance = 0
    /\ InitServices

\* one handler, as a service has it
ReadyWith(ls, evs) == ReadyHandlers({1}, ls, evs)

\* the channels in the order client code subscribed to them
ChannelOrder == <<"create", "delete", "query", "update", "any">>

\* handler.on(ch, callback) for every channel, each callback returning
PlainListeners ==
    [l \in 1..Len(ChannelOrder) |->
        [how |-> "on", handler |-> 1, event |-> ChannelOrder[l],
         routingKey |-> ANY, does |-> "returns", to |-> "other",
         unbound |-> FALSE]]

PlainEvents ==
    [ch \in Channels |->
        SelectSeq(<<1, 2, 3, 4, 5>>, LAMBDA l : ChannelOrder[l] = ch)]

InitDispatch == ReadyWith(PlainListeners, PlainEvents)

\* frames of every fate: bytes that do not parse, a JSON null, a message
\* with an intention and one without
MixedFrames ==
    { "{\"msg_id\":",
      "null",
      "{\"msg_id\":1,\"msg_intention\":\"CREATE\",\"status\":0}",
      "{\"msg_id\":6,\"status\":0}" }

NextDispatch ==
    \/ \E b \in MixedFrames : handleIncoming(1, b, <<"foo", "update">>)
    \/ \E i \in 1..MaxFrames, o \in ValidatorOutcomes : IncomingValidated(i, o)
    \/ \E i \in 1..MaxFrames, r \in ResponseKinds : handleReply(i, r)
    \/ \E k \in 1..MaxReplies, o \in ValidatorOutcomes : OutgoingValidated(k, o)

SpecDispatch == InitDispatch /\ [][NextDispatch]_vars

(***************************************************************************)
(* send called by a subclass on its own, at any point of the first         *)
(* connection attempt: before, while and after setupConnection sets        *)
(* _responseChannel.                                                       *)
(***************************************************************************)
\* what a subclass may pass as response
SendPayloads ==
    { [msg_id |-> 7, msg_intention |-> "READ", status |-> 200],
      [status |-> 200] }

NextSend ==
    \/ ConnectRejects(1)
    \/ ConnectResolves(1)
    \/ CreateResponseChannelOk(1)
    \/ AssertGatewayOk(1)
    \/ CreateRequestChannelOk(1)
    \/ AssertRequestOk(1)
    \/ AssertQueueOk(1)
    \/ \E t \in Topics : BindQueueOk(1, t)
    \/ BindingsDone(1)
    \/ SetupCompletes(1)
    \/ SetupFails(1)
    \/ \E r \in SendPayloads : send(1, 0, 7, "READ", r)
    \/ \E k \in 1..MaxReplies, o \in ValidatorOutcomes : OutgoingValidated(k, o)

SpecSend == Init /\ [][NextSend]_vars

(***************************************************************************)
(* The switch of handleIncoming, over a message of every intention.        *)
(***************************************************************************)
RoutingFrames ==
    { "{\"msg_id\":1,\"msg_intention\":\"CREATE\",\"status\":0}",
      "{\"msg_id\":2,\"msg_intention\":\"READ\",\"status\":0}",
      "{\"msg_id\":3,\"msg_intention\":\"UPDATE\",\"status\":0}",
      "{\"msg_id\":4,\"msg_intention\":\"DELETE\",\"status\":0}",
      "{\"msg_id\":5,\"msg_intention\":\"PING\",\"status\":0}",
      "{\"msg_id\":6,\"status\":0}" }

NextRouting ==
    \/ \E b \in RoutingFrames : handleIncoming(1, b, <<"foo", "update">>)
    \/ \E i \in 1..MaxFrames, o \in ValidatorOutcomes : IncomingValidated(i, o)

SpecRouting == InitDispatch /\ [][NextRouting]_vars

(***************************************************************************)
(* The emitter under client code that subscribes with on and once,         *)
(* unsubscribes, and whose callbacks return, throw, return a promise that  *)
(* rejects, or (in a subclass, which the hooks are open to) pass the       *)
(* message on to the update hook.                                          *)
(***************************************************************************)
NoListeners == [l \in 1..NumListeners |-> NoListener]

NoEvents == [ch \in Channels |-> <<>>]

InitEmitter == ReadyWith(NoListeners, NoEvents)

EmitterEvents == {"update", "delete"}

Behaviours == {"returns", "throws", "rejects", "forwards"}

EmitterFrames ==
    { "{\"msg_id\":3,\"msg_intention\":\"UPDATE\",\"status\":0}",
      "{\"msg_id\":4,\"msg_intention\":\"DELETE\",\"status\":0}" }

NextEmitter ==
    \/ \E l \in 1..NumListeners, e \in EmitterEvents, d \in Behaviours :
          on(1, l, e, d, "update")
    \/ \E l \in 1..NumListeners, e \in EmitterEvents, d \in Behaviours :
          once(1, l, e, d, "update")
    \/ \E l \in 1..NumListeners : Unsubscribe(l)
    \/ \E b \in EmitterFrames : handleIncoming(1, b, <<"foo", "update">>)
    \/ \E i \in 1..MaxFrames : IncomingValidated(i, "true")

SpecEmitter == InitEmitter /\ [][NextEmitter]_vars

(***************************************************************************)
(* The routing binders: bindTo and bind beside plain subscribers.          *)
(***************************************************************************)
BinderKeys ==
    {KeyString(<<"foo", "update">>), KeyRegExp(<<"foo">>), ANY}

RoutingKeys == {<<"foo", "update">>, <<"bar", "update">>}

NextBinder ==
    \/ binder(1)
    \/ \E l \in 1..NumListeners, a \in EmitterEvents, rk \in BinderKeys :
          bindTo(1, l, a, rk, "returns", "other")
    \/ \E l \in 1..NumListeners, a \in EmitterEvents, rk \in BinderKeys :
          bind(l, a, rk, "returns", "other")
    \/ \E l \in 1..NumListeners, e \in EmitterEvents,
          d \in {"throws", "forwards"} : on(1, l, e, d, "update")
    \/ \E b \in EmitterFrames, rk \in RoutingKeys : handleIncoming(1, b, rk)
    \/ \E i \in 1..MaxFrames : IncomingValidated(i, "true")

SpecBinder == InitEmitter /\ [][NextBinder]_vars


(***************************************************************************)
(* Properties of the connection lifecycle, checked under Spec.             *)
(***************************************************************************)

\* C1: when a reconnect timer expires, a new connection attempt starts that
\* invokes the connect function again.
C1_TimerExpiryInvokesConnect ==
    [][Len(timers') < Len(timers)
          => \E h \in DOMAIN pc : connectCalls'[h] = connectCalls[h] + 1]_vars

\* C2: at most one reconnect timer or connect attempt is outstanding at a
\* time, and at most one setupConnection sequence is in progress.
C2_ReconnectSerialized ==
    \A h \in DOMAIN pc :
        /\ Len(timers) + (IF pc[h] = "connecting" THEN 1 ELSE 0) <= 1
        /\ Cardinality({g \in DOMAIN pc : pc[g] \in SetupSteps}) <= 1

\* C3: a 'close' event of a Ready connection makes the handler not Ready,
\* emits an error event and arms the reconnect timer.
C3_CloseArmsReconnect ==
    [][\A h \in DOMAIN pc :
          (connected[h] /\ ~connClosed[h] /\ connClosed'[h])
             => /\ ~connected'[h]
                /\ errorEvents'[h] > errorEvents[h]
                /\ Len(timers') = Len(timers) + 1]_vars

\* nothing of the handler is outstanding any more: no pending connect, no
\* setupConnection in progress, no timer
Quiescent ==
    /\ timers = <<>>
    /\ \A h \in DOMAIN pc : pc[h] \in {"done", "failed"}

\* C4: every callback passed to onReady is invoked exactly once: never twice,
\* and by the time the handler has nothing outstanding, once.
C4_OnReadyExactlyOnce ==
    /\ \A c \in Callbacks : cbCalls[c] <= 1
    /\ Quiescent => \A c \in cbRegistered : cbCalls[c] = 1

\* C5: a connection 'error' event received while Ready leaves the handler
\* not Ready.
C5_ErrorLeavesReady ==
    [][\A h \in DOMAIN pc :
          (connected[h] /\ connErrors'[h] > connErrors[h])
             => ~connected'[h]]_vars

\* C6 as stated: the timer armed after N failed connection attempts (connect
\* rejections, setupConnection throws) waits min(5000 * 1.2^N, 120000) ms.
C6_DelayByFailedAttempts ==
    [][failures' = failures + 1
          => lastDelay' = DecMin(BackoffAfter(attemptFailures[1]),
                                 Dec(120000))]_vars

\* C6 as amended: the timer armed by the (N+1)-th call of
\* connectionErrorHandler (failed attempts and connection 'error' events
\* alike) waits min(5000 * 1.2^N, 120000) ms: 5000 ms the first time, never
\* more than 120000 ms.
C6_DelayByFailuresHandled ==
    /\ backoffTime = BackoffAfter(failures)
    /\ failures > 0 =>
          lastDelay = DecMin(BackoffAfter(failures - 1), Dec(120000))
    /\ failures = 1 => lastDelay = Dec(5000)
    /\ \A i \in 1..Len(timers) : DecLE(timers[i], Dec(120000))

\* C6: the ceiling is what the timer got
C6_Witness ==
    /\ failures = 19
    /\ lastDelay = Dec(120000)
    /\ ~DecLE(BackoffAfter(18), Dec(120000))

\* C7: backoffTime never decreases: each call of connectionErrorHandler
\* multiplies it by 1.2 and every other step leaves it alone, a completed
\* setupConnection included.
C7_BackoffNeverDecreases ==
    [][/\ DecLE(backoffTime, backoffTime')
       /\ failures' = failures + 1 => backoffTime' = TimesGrowth(backoffTime)
       /\ failures' = failures => backoffTime' = backoffTime
       /\ (\E h \in DOMAIN pc : pc[h] = "consume" /\ pc'[h] = "done")
             => backoffTime' = backoffTime]_vars

\* C7: a handler that became Ready after a failure was handled
C7_Witness ==
    /\ connected[1]
    /\ pc[1] = "done"
    /\ failures = 2
    /\ backoffTime = Dec(7200)

\* the order setupConnection issues its broker operations in
ExpectedOps ==
    <<<<"createChannel">>,
      <<"assertExchange", "gateway", "direct">>,
      <<"createChannel">>,
      <<"assertExchange", "request", "topic", "durable=false">>,
      <<"assertQueue", "inbox", "exclusive=false">>>>
    \o [t \in 1..NumTopics |-> <<"bindQueue", t>>]
    \o <<<<"consume", "inbox">>>>

IsPrefix(s, t) ==
    /\ Len(s) <= Len(t)
    /\ \A i \in 1..Len(s) : s[i] = t[i]

ConsumeIssued(h) ==
    \E i \in 1..Len(brokerOps[h]) : brokerOps[h][i] = <<"consume", "inbox">>

\* C8: the broker operations are issued in the order reply exchange (direct),
\* request exchange (topic, non-durable), inbox queue (non-exclusive), one
\* bindQueue per topic, consume; consume is issued only when every bindQueue
\* has resolved; Ready, the ready event and the onReady callbacks come only
\* after consume has resolved.
C8_TopologyOrder ==
    \A h \in DOMAIN pc :
        /\ IsPrefix(brokerOps[h], ExpectedOps)
        /\ ConsumeIssued(h) => pendingBinds[h] = {}
        /\ (connected[h] \/ readyEvents[h] > 0
              \/ \E c \in Callbacks : cbCalls[c] > 0)
              => pc[h] = "done" /\ brokerOps[h] = ExpectedOps

\* C8: a handler that went through the whole of setupConnection, a queued
\* callback called
C8_Witness ==
    /\ connected[1]
    /\ brokerOps[1] = ExpectedOps
    /\ readyEvents[1] = 1
    /\ cbCalls[1] = 1

\* C9: a failing step of setupConnection leaves the handler not Ready, fires
\* no ready event and no onReady callback, emits an error event and arms the
\* reconnect timer.
C9_SetupFailureBacksOff ==
    /\ [](\A h \in DOMAIN pc :
            pc[h] = "failed"
               => /\ ~connected[h]
                  /\ readyEvents[h] = 0
                  /\ \A c \in Callbacks : cbCalls[c] = 0)
    /\ [][\A h \in DOMAIN pc :
            (pc[h] \in SetupSteps /\ pc'[h] = "failed")
               => /\ ~connected'[h]
                  /\ readyEvents' = readyEvents
                  /\ cbCalls' = cbCalls
                  /\ errorEvents'[h] > errorEvents[h]
                  /\ Len(timers') = Len(timers) + 1]_vars

\* C9: consume, the last step, failed with a callback waiting
C9_Witness ==
    /\ pc[1] = "failed"
    /\ brokerOps[1] = ExpectedOps
    /\ waitingForReady[1] # <<>>
    /\ timers # <<>>

(***************************************************************************)
(* Properties of the dispatcher, checked under SpecDispatch.               *)
(***************************************************************************)
Refused(i) ==
    \/ inbox[i].content = SyntaxError
    \/ inbox[i].validator = "false"

\* C10: a frame that fails JSON parsing, or that the incoming validator
\* rejects, reaches no hook, emits no event, not even an error event, and
\* gets no reply.
C10_RefusedFramesAreDropped ==
    /\ [](\A i \in 1..Len(inbox) :
            Refused(i)
               => /\ inbox[i].stage = "dropped"
                  /\ \A j \in 1..Len(hookCalls) : hookCalls[j][2] # i
                  /\ \A j \in 1..Len(emitted) : emitted[j][2] # i
                  /\ \A j \in 1..Len(sends) : sends[j].for # i
                  /\ \A j \in 1..Len(published) : published[j].for # i)
    /\ [][(\E i \in 1..Len(inbox') :
              /\ inbox'[i].stage = "dropped"
              /\ i \in 1..Len(inbox) => inbox[i].stage # "dropped")
            => UNCHANGED <<hookCalls, emitted, errorEvents, readyEvents,
                           sends, published>>]_vars

\* C10: one frame dropped for its bytes and one for its content, beside
\* nothing else
C10_Witness ==
    /\ Len(inbox) = 2
    /\ inbox[1].content = SyntaxError
    /\ inbox[2].validator = "false"
    /\ inbox[2].stage = "dropped"

(***************************************************************************)
(* Properties of the switch of handleIncoming, checked under SpecRouting.  *)
(***************************************************************************)
TypedIntentions == {"CREATE", "READ", "UPDATE", "DELETE"}

\* the channel the contract gives an intention
MatchingChannel(intention) ==
    CASE intention = "CREATE" -> "create"
      [] intention = "READ" -> "query"
      [] intention = "UPDATE" -> "update"
      [] intention = "DELETE" -> "delete"

\* how often delivery i was emitted on channel ch
EmissionsOf(i, ch) ==
    Cardinality({k \in 1..Len(emitted) : emitted[k] = <<ch, i>>})

\* how often the callback of listener l was called with delivery i
InvocationsOf(l, i) ==
    Cardinality({k \in 1..Len(invoked) : invoked[k] = <<l, i>>})

\* delivery i is a message the incoming validator accepted
Validated(i) ==
    /\ inbox[i].content.type = "object"
    /\ inbox[i].validator = "true"

HasTypedIntention(i) ==
    /\ inbox[i].content.has_intention
    /\ inbox[i].content.msg_intention \in TypedIntentions

\* C11: a validated message whose msg_intention is CREATE, READ, UPDATE or
\* DELETE is emitted exactly once on the matching channel (create, query,
\* update, delete) and on no other channel, the any channel included; the
\* subscriber of the matching channel gets it once, every other none.
C11_TypedIntentionRouting ==
    \A i \in 1..Len(inbox) :
        (Validated(i) /\ HasTypedIntention(i)) =>
            /\ \A ch \in Channels :
                  EmissionsOf(i, ch) =
                     IF ch = MatchingChannel(inbox[i].content.msg_intention)
                        THEN 1 ELSE 0
            /\ \A l \in DOMAIN listeners :
                  InvocationsOf(l, i) =
                     IF listeners[l].event =
                           MatchingChannel(inbox[i].content.msg_intention)
                        THEN 1 ELSE 0

\* C11: a READ and a DELETE message went through the switch
C11_Witness ==
    /\ Len(inbox) = 2
    /\ inbox[1].content.type = "object"
    /\ inbox[1].content.msg_intention = "READ"
    /\ inbox[2].content.type = "object"
    /\ inbox[2].content.msg_intention = "DELETE"
    /\ emitted = <<<<"delete", 2>>, <<"query", 1>>>>

\* C12: a validated message without msg_intention, or with one that is none
\* of CREATE, READ, UPDATE, DELETE, is emitted exactly once on the any
\* channel and on no typed channel, and it is dispatched, not rejected.
C12_OtherIntentionRouting ==
    \A i \in 1..Len(inbox) :
        (Validated(i) /\ ~HasTypedIntention(i)) =>
            /\ inbox[i].stage = "dispatched"
            /\ \A ch \in Channels :
                  EmissionsOf(i, ch) = IF ch = "any" THEN 1 ELSE 0
            /\ \A l \in DOMAIN listeners :
                  InvocationsOf(l, i) =
                     IF listeners[l].event = "any" THEN 1 ELSE 0

\* C12: a message with an unknown intention and one with none went through
\* the switch
C12_Witness ==
    /\ Len(inbox) = 2
    /\ inbox[1].content.type = "object"
    /\ inbox[1].content.msg_intention = "PING"
    /\ inbox[2].content.type = "object"
    /\ ~inbox[2].content.has_intention
    /\ emitted = <<<<"any", 1>>, <<"any", 2>>>>

(***************************************************************************)
(* Properties of the emitter, checked under SpecEmitter.                   *)
(***************************************************************************)
\* the calls of the callback of listener l made by this step
NewInvocations(l) ==
    Cardinality({k \in (Len(invoked) + 1)..Len(invoked') :
                    invoked'[k][1] = l})

\* the emissions on channel ch made by this step
NewEmissions(ch) ==
    Cardinality({k \in (Len(emitted) + 1)..Len(emitted') :
                    emitted'[k][1] = ch})

\* C13: a subscribed handler that throws or returns a rejecting promise is
\* contained at the dispatch boundary: an error event is emitted and
\* handleIncoming neither throws nor rejects.
C13_HandlerFailureContained ==
    /\ [](\A i \in 1..Len(inbox) : inbox[i].stage # "threw")
    /\ [][(\E k \in (Len(invoked) + 1)..Len(invoked') :
              listeners[invoked'[k][1]].does \in {"throws", "rejects"})
            => /\ errorEvents'[1] > errorEvents[1]
               /\ unhandledRejections' = unhandledRejections]_vars

\* C17: an emission on a channel calls each subscriber registered on it with
\* on() exactly once, and calls no subscriber of another channel.
C17_FanOut ==
    [][\A l \in DOMAIN listeners :
          (listeners[l].how = "on" /\ ~listeners[l].unbound)
             => NewInvocations(l) = NewEmissions(listeners[l].event)]_vars

\* how often the callback of listener l has been called
TotalInvocations(l) ==
    Cardinality({k \in 1..Len(invoked) : invoked[k][1] = l})

\* C18: a callback registered with once() is called at most once whatever
\* the emissions, is not called after its unsubscribe function was called,
\* and its removal leaves the other subscribers registered.
C18_OnceAtMostOnce ==
    /\ [](\A l \in DOMAIN listeners :
            listeners[l].how = "once" => TotalInvocations(l) <= 1)
    /\ [][\A l \in DOMAIN listeners :
            /\ (listeners[l].how = "once" /\ listeners[l].unbound)
                  => NewInvocations(l) = 0
            /\ (listeners[l].how = "on" /\ ~listeners'[l].unbound)
                  => \A ch \in Channels :
                        (\E k \in 1..Len(events[1][ch]) :
                              events[1][ch][k] = l)
                           => \E k \in 1..Len(events'[1][ch]) :
                                 events'[1][ch][k] = l]_vars

(***************************************************************************)
(* Properties of the routing binders, checked under SpecBinder.            *)
(***************************************************************************)
\* the contract's match of a routing key: equal to a string, tested true by
\* a RegExp, always for ANY
Matches(routingKey, routing) ==
    CASE routingKey.typeof = "string" -> routing = routingKey.value
      [] routingKey.typeof = "object" -> RegExpTest(routingKey, routing)
      [] OTHER -> TRUE

\* the calls of the callback of listener l with delivery i made by this step
NewInvocationsFor(l, i) ==
    Cardinality({k \in (Len(invoked) + 1)..Len(invoked') :
                    invoked'[k] = <<l, i>>})

\* the emissions of delivery i on channel ch made by this step
NewEmissionsFor(i, ch) ==
    Cardinality({k \in (Len(emitted) + 1)..Len(emitted') :
                    emitted'[k] = <<ch, i>>})

\* C19: the callback of bindTo(instance, action, routingKey, f) is called for
\* a dispatched message if and only if the message is emitted on the channel
\* `action` and its routing key matches routingKey (messages whose intention
\* agrees with the channel).
C19_BindToFiresOnMatch ==
    [][\A l \in DOMAIN listeners : \A i \in 1..Len(inbox) :
          (/\ listeners[l].how = "bindTo"
           /\ ~IntentionMismatch(listeners[l].event, inbox[i].content))
             => (NewInvocationsFor(l, i) > 0
                    <=> /\ NewEmissionsFor(i, listeners[l].event) > 0
                        /\ Matches(listeners[l].routingKey,
                                   inbox[i].routingKey))]_vars

\* C20: a routing binder (bindTo or bind) bound to create, delete, query or
\* update that receives, under a matching routing key, a message whose
\* msg_intention disagrees with its action raises and does not call the
\* wrapped callback.
C20_MismatchRaises ==
    [][\A l \in DOMAIN listeners : \A i \in 1..Len(inbox) :
          (/\ listeners[l].how \in {"bindTo", "bind"}
           /\ IntentionMismatch(listeners[l].event, inbox[i].content)
           /\ NewEmissionsFor(i, listeners[l].event) > 0
           /\ Matches(listeners[l].routingKey, inbox[i].routingKey))
             => /\ NewInvocationsFor(l, i) = 0
                /\ inbox'[i].stage = "threw"]_vars

(***************************************************************************)
(* Properties of send.                                                     *)
(***************************************************************************)
\* what call k of send has published
PublishedBy(k) ==
    SelectSeq(published, LAMBDA m : m.send = k)

\* C14: a call send(id, intention, payload) with a response channel whose
\* payload the outgoing validator rejects publishes exactly one message,
\* {msg_id: id, msg_intention: intention, status: 500}, and never the payload.
C14_RejectedPayloadFallback ==
    \A k \in 1..Len(sends) :
        sends[k].validator = "false" =>
            PublishedBy(k) =
               <<[for |-> sends[k].for, send |-> k,
                  body |-> [msg_id |-> sends[k].msg_id,
                            msg_intention |-> sends[k].msg_intention,
                            status |-> 500]]>>

\* C14: a payload that differs from the substitute was rejected
C14_Witness ==
    /\ Len(sends) = 1
    /\ sends[1].validator = "false"
    /\ sends[1].response = [status |-> 200]
    /\ Len(published) = 1

\* C15: every message published in answer to a request carries the msg_id
\* and the msg_intention of that request, whatever response the handler
\* passed and whether the outgoing validator accepted it or not.
C15_RepliesAreCorrelated ==
    \A j \in 1..Len(published) :
        published[j].for # 0 =>
            /\ published[j].body.msg_id = inbox[published[j].for].content.msg_id
            /\ published[j].body.msg_intention =
                  inbox[published[j].for].content.msg_intention

\* C16: send called without a response channel publishes nothing, does not
\* call the outgoing validator and completes normally.
C16_SendWithoutChannel ==
    /\ [](\A k \in 1..Len(sends) :
            sends[k].stage = "no-channel"
               => /\ sends[k].validator = "none"
                  /\ PublishedBy(k) = <<>>)
    /\ [][(Len(sends') > Len(sends) /\ responseChannel[1] = 0)
            => /\ sends'[Len(sends')].stage = "no-channel"
               /\ UNCHANGED <<published, unhandledRejections,
                              errorEvents>>]_vars

\* C16: send was called before the channel existed and the channel has been
\* established since
C16_Witness ==
    /\ Len(sends) = 1
    /\ sends[1].stage = "no-channel"
    /\ responseChannel[1] # 0
    /\ published = <<>>

(***************************************************************************)
(* Order of dispatch, checked under SpecRouting.                           *)
(***************************************************************************)
\* C21: messages are dispatched in delivery order: when m1 was delivered
\* before m2 and both pass validation, the handlers of m1 are invoked before
\* the handlers of m2, whatever the order the validator's results arrive in.
C21_DispatchInDeliveryOrder ==
    \A a \in 1..Len(invoked) : \A b \in 1..Len(invoked) :
        a < b => invoked[a][2] <= invoked[b][2]


(***************************************************************************)
(* Healthcheck.ts.  A JavaScript object with string values is a function   *)
(* from its own keys; JSON.stringify of such an object followed by the     *)
(* client's JSON.parse gives the same keys and values.                     *)
(***************************************************************************)
DEFAULT_PORT == 7777

EmptyObject == [k \in {} |-> ""]

\* obj[key] = value
Assign(obj, key, value) ==
    [k \in DOMAIN obj \cup {key} |-> IF k = key THEN value ELSE obj[k]]

\* the elements of an array
Elements(arr) == {arr[n] : n \in 1..Len(arr)}

\* the state outside Healthcheck.ts
nonHealthVars == <<connVars, inbox, hookCalls, emitted, sends, published,
                   emitterVars, dbVars>>

\* an EADDRINUSE 'error' event of a server nobody listens to for errors is
\* an uncaught exception, which ends the process
Crashed == \E s \in 1..NumLaunches : healthchecks[s].state = "error"

Listening(port) ==
    {s \in 1..NumLaunches : /\ healthchecks[s].state = "listening"
                            /\ healthchecks[s].port = port}

\* launchCheck up to its await: the check of activeHealthcheck, the
\* constructor and launch(), whose server.listen is answered later
launchCheck(s, traits, validator, port) ==
    /\ ~Crashed
    /\ healthchecks[s].state = "none"
    /\ \A t \in 1..(s - 1) : healthchecks[t].state # "none"
    /\ healthchecks' = [healthchecks EXCEPT ![s] =
            IF activeHealthcheck # 0
            THEN [state |-> "refused",
                  error |-> "multiple healthchecks cannot be created"]
            ELSE [state |-> "launching", port |-> port,
                  declaredTraits |-> traits, validator |-> validator,
                  activeTraits |-> EmptyObject]]
    /\ UNCHANGED <<activeHealthcheck, traitCalls, responses, clears,
                   nonHealthVars>>

\* the listen callback resolves launch(), and launchCheck resumes:
\* activeHealthcheck = value
ListenCallback(s) ==
    /\ ~Crashed
    /\ healthchecks[s].state = "launching"
    /\ Listening(healthchecks[s].port) = {}
    /\ healthchecks' = [healthchecks EXCEPT ![s].state = "listening"]
    /\ activeHealthcheck' = s
    /\ UNCHANGED <<traitCalls, responses, clears, nonHealthVars>>

\* the port is taken: the server raises 'error', launch() never settles
ListenError(s) ==
    /\ ~Crashed
    /\ healthchecks[s].state = "launching"
    /\ Listening(healthchecks[s].port) # {}
    /\ healthchecks' = [healthchecks EXCEPT ![s].state = "error"]
    /\ UNCHANGED <<activeHealthcheck, traitCalls, responses, clears,
                   nonHealthVars>>

\* close() by the caller that launchCheck gave the instance to
close(s) ==
    /\ ~Crashed
    /\ healthchecks[s].state = "listening"
    /\ healthchecks' = [healthchecks EXCEPT ![s].state = "closed"]
    /\ UNCHANGED <<activeHealthcheck, traitCalls, responses, clears,
                   nonHealthVars>>

_clearHealthcheck ==
    /\ ~Crashed
    /\ clears < MaxClears
    /\ clears' = clears + 1
    /\ activeHealthcheck' = 0
    /\ UNCHANGED <<healthchecks, traitCalls, responses, nonHealthVars>>

\* this._activeTraits[key] = value
SetTrait(hcs, s, key, value) ==
    [hcs EXCEPT ![s].activeTraits = Assign(hcs[s].activeTraits, key, value)]

\* trait(key, value) on the instance launchCheck resolved with
trait(s, key, value) ==
    /\ ~Crashed
    /\ healthchecks[s].state \in {"listening", "closed"}
    /\ Len(traitCalls) < MaxTraitCalls
    /\ traitCalls' = Append(traitCalls,
            [via |-> "trait", on |-> s, key |-> key, value |-> value])
    /\ healthchecks' = SetTrait(healthchecks, s, key, value)
    /\ UNCHANGED <<activeHealthcheck, responses, clears, nonHealthVars>>

\* tryApplyTrait that also works while activeHealthcheck is undefined, on
\* the instance that is being launched
tryApplyTraitOnLaunching(key, value) ==
    /\ ~Crashed
    /\ Len(traitCalls) < MaxTraitCalls
    /\ traitCalls' = Append(traitCalls,
            [via |-> "tryApplyTrait", on |-> activeHealthcheck,
             key |-> key, value |-> value])
    /\ healthchecks' =
            IF activeHealthcheck # 0
            THEN SetTrait(healthchecks, activeHealthcheck, key, value)
            ELSE [s \in 1..NumLaunches |->
                    IF healthchecks[s].state = "launching"
                    THEN SetTrait(healthchecks, s, key, value)[s]
                    ELSE healthchecks[s]]
    /\ UNCHANGED <<activeHealthcheck, responses, clears, nonHealthVars>>

tryApplyTrait(key, value) ==
    /\ ~Crashed
    /\ Len(traitCalls) < MaxTraitCalls
    /\ traitCalls' = Append(traitCalls,
            [via |-> "tryApplyTrait", on |-> activeHealthcheck,
             key |-> key, value |-> value])
    /\ healthchecks' =
            IF activeHealthcheck # 0
            THEN SetTrait(healthchecks, activeHealthcheck, key, value)
            ELSE healthchecks
    /\ UNCHANGED <<activeHealthcheck, responses, clears, nonHealthVars>>

\* buildResponse(): a copy of the active traits, with '_undefined' for the
\* declared traits that are not among them
buildResponse(hc) ==
    [k \in DOMAIN hc.activeTraits \cup Elements(hc.declaredTraits) |->
        IF k \in DOMAIN hc.activeTraits THEN hc.activeTraits[k]
        ELSE "_undefined"]

ValidatorKinds == {"healthy", "unhealthy-serving", "unhealthy", "throws"}

\* handle that answers 200 whenever the validator returned
handleServingIsOk(s, url) ==
    /\ ~Crashed
    /\ healthchecks[s].state = "listening"
    /\ Len(responses) < MaxRequests
    /\ LET hc == healthchecks[s]
           status == IF hc.validator = "throws" THEN "unhealthy"
                     ELSE hc.validator
       IN  responses' = Append(responses,
                IF url # "/healthcheck"
                THEN [server |-> s, url |-> url, statusCode |-> 404,
                      validated |-> FALSE, traits |-> hc.activeTraits]
                ELSE [server |-> s, url |-> url,
                      statusCode |-> IF hc.validator # "throws"
                                     THEN 200 ELSE 500,
                      validated |-> TRUE, traits |-> hc.activeTraits,
                      declared |-> hc.declaredTraits,
                      validator |-> hc.validator,
                      body |-> Assign(buildResponse(hc), "status", status)])
    /\ UNCHANGED <<activeHealthcheck, healthchecks, traitCalls, clears,
                   nonHealthVars>>

\* handle(req, res) of a listening server; the response also records what
\* the server held when it answered
handle(s, url) ==
    /\ ~Crashed
    /\ healthchecks[s].state = "listening"
    /\ Len(responses) < MaxRequests
    /\ LET hc == healthchecks[s]
           status == IF hc.validator = "throws" THEN "unhealthy"
                     ELSE hc.validator
       IN  responses' = Append(responses,
                IF url # "/healthcheck"
                THEN [server |-> s, url |-> url, statusCode |-> 404,
                      validated |-> FALSE, traits |-> hc.activeTraits]
                ELSE [server |-> s, url |-> url,
                      statusCode |-> IF status = "healthy" THEN 200 ELSE 500,
                      validated |-> TRUE, traits |-> hc.activeTraits,
                      declared |-> hc.declaredTraits,
                      validator |-> hc.validator,
                      body |-> Assign(buildResponse(hc), "status", status)])
    /\ UNCHANGED <<activeHealthcheck, healthchecks, traitCalls, clears,
                   nonHealthVars>>

\* what the clients of the healthcheck pass in
Ports == {DEFAULT_PORT, DEFAULT_PORT + 1}
TraitKeys == {"database", "status"}
TraitValues == {"connected", "lost"}
URLs == {"/healthcheck", "/healthcheck/", "/"}
DeclaredTraits == {<<>>, <<"database">>}

\* launching, clearing and closing healthchecks on two ports
NextLaunch ==
    \/ \E s \in 1..NumLaunches : \E port \in Ports :
            launchCheck(s, <<>>, "healthy", port)
    \/ \E s \in 1..NumLaunches : ListenCallback(s)
    \/ \E s \in 1..NumLaunches : ListenError(s)
    \/ \E s \in 1..NumLaunches : close(s)
    \/ _clearHealthcheck

SpecLaunch == Init /\ [][NextLaunch]_vars

\* requests to healthchecks with each kind of validator
NextHandle ==
    \/ \E s \in 1..NumLaunches : \E v \in ValidatorKinds :
            launchCheck(s, <<"database">>, v, DEFAULT_PORT)
    \/ \E s \in 1..NumLaunches : ListenCallback(s)
    \/ \E s \in 1..NumLaunches : ListenError(s)
    \/ \E s \in 1..NumLaunches : close(s)
    \/ _clearHealthcheck
    \/ \E s \in 1..NumLaunches : \E url \in URLs : handle(s, url)

SpecHandle == Init /\ [][NextHandle]_vars

\* traits set on the instance launchCheck returned
NextTraits ==
    \/ \E s \in 1..NumLaunches : \E traits \in DeclaredTraits :
            launchCheck(s, traits, "unhealthy-serving", DEFAULT_PORT)
    \/ \E s \in 1..NumLaunches : ListenCallback(s)
    \/ \E s \in 1..NumLaunches : \E key \in TraitKeys :
            \E value \in TraitValues : trait(s, key, value)
    \/ \E s \in 1..NumLaunches : handle(s, "/healthcheck")

SpecTraits == Init /\ [][NextTraits]_vars

\* traits set through the module, whether or not a healthcheck is active
NextTryApply ==
    \/ \E s \in 1..NumLaunches :
            launchCheck(s, <<"database">>, "healthy", DEFAULT_PORT)
    \/ \E s \in 1..NumLaunches : ListenCallback(s)
    \/ _clearHealthcheck
    \/ \E key \in TraitKeys : \E value \in TraitValues :
            tryApplyTrait(key, value)
    \/ \E s \in 1..NumLaunches : handle(s, "/healthcheck")

SpecTryApply == Init /\ [][NextTryApply]_vars

(***************************************************************************)
(* The healthcheck claims.                                                 *)
(***************************************************************************)
\* the launchCheck calls that resolved with a healthcheck whose server is
\* still listening
Active == {s \in 1..NumLaunches : healthchecks[s].state = "listening"}

\* C22: at most one healthcheck server is active in a process: as long as
\* _clearHealthcheck has not been called, no two launchCheck calls have
\* both succeeded, also when the calls overlap, and a call made while a
\* healthcheck is set is refused with 'multiple healthchecks cannot be
\* created'.  Checked under SpecLaunch.
C22_SingleHealthcheck ==
    clears = 0 => Cardinality(Active) <= 1


\* C23: a request for /healthcheck is answered 200 exactly when the
\* validator returned 'healthy' and 500 otherwise, 'unhealthy-serving' and
\* a throwing validator (reported as 'unhealthy') included; a request for
\* any other URL is answered 404 and the validator is not invoked.
\* Checked under SpecHandle.
C23_StatusCode ==
    \A n \in 1..Len(responses) :
        LET r == responses[n]
        IN  IF r.url = "/healthcheck"
            THEN /\ r.validated
                 /\ r.statusCode \in {200, 500}
                 /\ r.statusCode = 200 <=> r.validator = "healthy"
                 /\ r.validator = "throws" => r.body["status"] = "unhealthy"
                 /\ r.validator # "throws" => r.body["status"] = r.validator
            ELSE r.statusCode = 404 /\ ~r.validated

\* a serving but unhealthy validator has been asked and answered with 500
C23_Witness ==
    \E n \in 1..Len(responses) :
        /\ responses[n].url = "/healthcheck"
        /\ responses[n].validator = "unhealthy-serving"
        /\ responses[n].statusCode = 500


\* the positions of the calls that set trait key on healthcheck s
CallsSetting(s, key) ==
    {n \in 1..Len(traitCalls) : traitCalls[n].on = s /\ traitCalls[n].key = key}

\* the keys that have been set on healthcheck s
KeysSet(s) == {key \in TraitKeys : CallsSetting(s, key) # {}}

\* the value of the latest call that set trait key on healthcheck s
LatestValue(s, key) ==
    LET n == CHOOSE m \in CallsSetting(s, key) :
                 \A o \in CallsSetting(s, key) : o <= m
    IN  traitCalls[n].value

\* C24: after any calls of trait(key, value), the body of a /healthcheck
\* response holds every trait that was set with its latest value, every
\* declared trait that was never set with '_undefined', the status, and no
\* other key; and the stored traits are what the calls of trait made them,
\* whatever responses have been built.  Checked under SpecTraits.
C24_ResponseBody ==
    /\ \A n \in 1..Len(responses) :
        LET r == responses[n]
            status == IF r.validator = "throws" THEN "unhealthy"
                      ELSE r.validator
        IN  r.url = "/healthcheck" =>
                /\ DOMAIN r.body =
                       DOMAIN r.traits \cup Elements(r.declared) \cup {"status"}
                /\ \A key \in DOMAIN r.traits : r.body[key] = r.traits[key]
                /\ \A key \in Elements(r.declared) \ DOMAIN r.traits :
                       r.body[key] = "_undefined"
                /\ r.body["status"] = status
    /\ \A s \in 1..NumLaunches :
        healthchecks[s].state \in {"launching", "listening", "closed"} =>
            /\ DOMAIN healthchecks[s].activeTraits = KeysSet(s)
            /\ \A key \in KeysSet(s) :
                   healthchecks[s].activeTraits[key] = LatestValue(s, key)


\* C25: tryApplyTrait(key, value) while no healthcheck is active changes
\* nothing and is not remembered, so that a healthcheck launched afterwards
\* does not report the trait; while a healthcheck is active it sets the
\* trait on that healthcheck.  Each call is logged with the value of
\* activeHealthcheck it found: the traits a healthcheck holds are exactly
\* those of the calls that found it active.  Checked under SpecTryApply.
C25_TryApplyTrait ==
    \A s \in 1..NumLaunches :
        healthchecks[s].state \in {"launching", "listening", "closed"} =>
            /\ \A key \in TraitKeys :
                   key \in DOMAIN healthchecks[s].activeTraits
                       <=> CallsSetting(s, key) # {}
            /\ \A n \in 1..Len(traitCalls) :
                   LET c == traitCalls[n]
                   IN  (c.on = s /\ \A m \in CallsSetting(s, c.key) : m <= n)
                           => healthchecks[s].activeTraits[c.key] = c.value

\* a trait applied before the launch is absent from the healthcheck, which
\* reports the value applied after it
C25_Witness ==
    /\ Len(traitCalls) = 2
    /\ traitCalls[1].on = 0 /\ traitCalls[1].key = "database"
    /\ traitCalls[1].value = "connected"
    /\ traitCalls[2].on # 0 /\ traitCalls[2].key = "database"
    /\ traitCalls[2].value = "lost"
    /\ \E n \in 1..Len(responses) :
           /\ responses[n].server = traitCalls[2].on
           /\ responses[n].body["database"] = "lost"


(***************************************************************************)
(* GenericMongoDatabase.ts and GenericCommentDatabase.ts.  The Mongo       *)
(* server answers every operation; each of its operations is atomic.  An   *)
(* id string is the 24 hex digits of an object id, the 12 characters that  *)
(* are its bytes, or neither.                                              *)
(***************************************************************************)
Hex(oid) == [form |-> "hex", oid |-> oid]
Raw(oid) == [form |-> "raw", oid |-> oid]
Malformed == [form |-> "malformed"]

\* ObjectId.isValid(id), new ObjectId(id) and objectId.toHexString()
ObjectIdIsValid(id) == id.form \in {"hex", "raw"}
NewObjectId(id) == id.oid
toHexString(oid) == Hex(oid)

\* Date.now(): a clock that every call advances
Now == Len(dbCalls) + 1

\* the state outside the database classes
nonDbVars == <<connVars, inbox, hookCalls, emitted, sends, published,
               emitterVars>>

NotReady == "create called before database was ready"

\* the calls of insertOne on the details collection that succeeded
Inserted ==
    Cardinality({n \in 1..Len(dbCalls) :
            dbCalls[n].op = "create" /\ dbCalls[n].outcome = "resolved"})

\* the then of MongoClient.connect: bindClientToHealthcheck, the
\* collections, _connected = true and the 'ready' event
MongoConnectResolves ==
    /\ database = "connecting"
    /\ database' = "ready"
    /\ traitCalls' = Append(traitCalls,
            [via |-> "tryApplyTrait", on |-> activeHealthcheck,
             key |-> "database.status", value |-> "healthy"])
    /\ healthchecks' =
            IF activeHealthcheck # 0
            THEN SetTrait(healthchecks, activeHealthcheck,
                          "database.status", "healthy")
            ELSE healthchecks
    /\ UNCHANGED <<details, changelog, dbCalls, activeHealthcheck, responses,
                   clears, nonDbVars>>

\* the catch of MongoClient.connect: the 'error' event, nothing else
MongoConnectRejects ==
    /\ database = "connecting"
    /\ database' = "failed"
    /\ UNCHANGED <<details, changelog, dbCalls, healthVars, nonDbVars>>

\* a call that threw or rejected before or after the operations ops
Rejected(op, error, ops) ==
    [op |-> op, outcome |-> "rejected", error |-> error, ops |-> ops]

Resolved(op, value, ops) ==
    [op |-> op, outcome |-> "resolved", value |-> value, ops |-> ops]

\* the filter { assetType: { $in: this._assetType } }
InAssetTypes(doc) == doc.assetType \in Elements(_assetType)

\* the stored comment a filter on _id and the asset types matches, if any
Matched(oid) ==
    /\ oid \in ObjectIds
    /\ details[oid] # Null
    /\ InAssetTypes(details[oid][1])

\* log(id, action, additional): one insertOne on the changelog
LogEntry(id, action, additional) ==
    [id |-> id, action |-> action, additional |-> additional,
     timestamp |-> Now]

\* createImpl that inserts whatever the asset type is
createImplAnyAsset(message) ==
    LET entity == [requiredAttention |->
                       IF message.requiresAttention = Null THEN FALSE
                       ELSE message.requiresAttention[1],
                   topic |-> message.topic,
                   attendedAt |-> Null, attendedBy |-> Null,
                   assetType |-> message.assetType,
                   body |-> message.body]
        insertedId == Len(Seeds) + Inserted + 1
    IN  [call |-> Resolved("create", <<toHexString(insertedId)>>,
                           <<"details.insertOne">>),
         details |-> [details EXCEPT ![insertedId] = Some(entity)],
         changelog |-> changelog]

createImpl(message) ==
    LET entity == [requiredAttention |->
                       IF message.requiresAttention = Null THEN FALSE
                       ELSE message.requiresAttention[1],
                   topic |-> message.topic,
                   attendedAt |-> Null, attendedBy |-> Null,
                   assetType |-> message.assetType,
                   body |-> message.body]
        insertedId == Len(Seeds) + Inserted + 1
    IN  IF message.assetType \notin Elements(_assetType)
        THEN [call |-> Rejected("create", "Invalid asset type", <<>>),
              details |-> details, changelog |-> changelog]
        ELSE [call |-> Resolved("create", <<toHexString(insertedId)>>,
                                <<"details.insertOne">>),
              details |-> [details EXCEPT ![insertedId] = Some(entity)],
              changelog |-> changelog]

\* deleteImpl that resolves whether or not a comment was deleted
deleteImplUncounted(message) ==
    IF ~ObjectIdIsValid(message.id)
    THEN [call |-> Rejected("delete", "invalid object id", <<>>),
          details |-> details, changelog |-> changelog]
    ELSE [call |-> Resolved("delete", <<message.id>>,
                            <<"details.deleteOne", "changelog.insertOne">>),
          details |-> IF Matched(NewObjectId(message.id))
                      THEN [details EXCEPT ![NewObjectId(message.id)] = Null]
                      ELSE details,
          changelog |-> Append(changelog,
                               LogEntry(message.id, "inserted", EmptyObject))]

\* deleteImpl, with genericDelete: deleteOne, the test of deletedCount, log
deleteImpl(message) ==
    IF ~ObjectIdIsValid(message.id)
    THEN [call |-> Rejected("delete", "invalid object id", <<>>),
          details |-> details, changelog |-> changelog]
    ELSE IF ~Matched(NewObjectId(message.id))
    THEN [call |-> Rejected("delete", "invalid entity ID",
                            <<"details.deleteOne">>),
          details |-> details, changelog |-> changelog]
    ELSE [call |-> Resolved("delete", <<message.id>>,
                            <<"details.deleteOne", "changelog.insertOne">>),
          details |-> [details EXCEPT ![NewObjectId(message.id)] = Null],
          changelog |-> Append(changelog,
                               LogEntry(message.id, "inserted", EmptyObject))]

\* transmute: the comment as the client sees it
transmute(oid, db) ==
    [id |-> toHexString(oid), assetType |-> db.assetType,
     attendedBy |-> db.attendedBy, attendedDate |-> db.attendedAt,
     topic |-> db.topic, requiresAttention |-> db.requiredAttention,
     body |-> db.body]

\* the filter queryImpl builds from the message
QueryMatches(message, oid) ==
    /\ details[oid] # Null
    /\ LET doc == details[oid][1]
       IN  /\ (message.requiresAttention = Some(TRUE))
                  => doc.requiredAttention = TRUE
           /\ message.topic # Null => doc.topic = message.topic
           /\ message.id # Null => oid = NewObjectId(message.id[1])
           /\ IF message.assetType # Null
              THEN doc.assetType = message.assetType[1]
              ELSE InAssetTypes(doc)

RECURSIVE Found(_, _)
\* details.find(exec).toArray(), transmuted, from object id oid on
Found(message, oid) ==
    IF oid \notin ObjectIds THEN <<>>
    ELSE (IF QueryMatches(message, oid)
          THEN <<transmute(oid, details[oid][1])>> ELSE <<>>)
         \o Found(message, oid + 1)

queryImpl(message) ==
    IF message.assetType # Null /\ message.assetType[1] \notin Elements(_assetType)
    THEN [call |-> Rejected("query", "Invalid asset type", <<>>),
          details |-> details, changelog |-> changelog]
    ELSE IF message.id # Null /\ ~ObjectIdIsValid(message.id[1])
    THEN [call |-> Rejected("query", "Argument passed in must be a single String of 12 bytes or a string of 24 hex characters", <<>>),
          details |-> details, changelog |-> changelog]
    ELSE [call |-> Resolved("query", Found(message, 1), <<"details.find">>),
          details |-> details, changelog |-> changelog]

\* the $set of an updateImpl that leaves attendedAt alone
UpdateSetKeepingDate(message) ==
    LET s0 == EmptyObject
        s1 == IF message.topic # Null THEN Assign(s0, "topic", message.topic)
              ELSE s0
        s2 == IF message.requiresAttention = Some(TRUE)
              THEN Assign(Assign(s1, "requiredAttention", TRUE),
                          "attendedBy", Null)
              ELSE IF message.requiresAttention = Some(FALSE)
              THEN Assign(s1, "requiredAttention", FALSE)
              ELSE s1
        s3 == IF message.attendedBy # Null
              THEN Assign(Assign(Assign(s2, "requiredAttention", FALSE),
                                 "attendedBy", message.attendedBy),
                          "attendedAt", Some(Now))
              ELSE s2
    IN  IF message.body # Null THEN Assign(s3, "body", message.body) ELSE s3

\* the $set updateImpl builds; later assignments overwrite earlier ones
UpdateSet(message) ==
    LET s0 == EmptyObject
        s1 == IF message.topic # Null THEN Assign(s0, "topic", message.topic)
              ELSE s0
        s2 == IF message.requiresAttention = Some(TRUE)
              THEN Assign(Assign(Assign(s1, "requiredAttention", TRUE),
                                 "attendedBy", Null), "attendedAt", Null)
              ELSE IF message.requiresAttention = Some(FALSE)
              THEN Assign(s1, "requiredAttention", FALSE)
              ELSE s1
        s3 == IF message.attendedBy # Null
              THEN Assign(Assign(Assign(s2, "requiredAttention", FALSE),
                                 "attendedBy", message.attendedBy),
                          "attendedAt", Some(Now))
              ELSE s2
    IN  IF message.body # Null THEN Assign(s3, "body", message.body) ELSE s3

\* the document after { $set: set }
ApplySet(doc, set) ==
    [f \in DOMAIN doc |-> IF f \in DOMAIN set THEN set[f] ELSE doc[f]]

\* updateImpl; emptySetRefused says whether this server refuses an empty
\* $set, as the servers before 5.0 do
updateImpl(message, emptySetRefused) ==
    LET set == UpdateSet(message)
    IN  IF ~ObjectIdIsValid(message.id)
        THEN [call |-> Rejected("update", "invalid object id", <<>>),
              details |-> details, changelog |-> changelog]
        ELSE IF set = EmptyObject /\ emptySetRefused
        THEN [call |-> Rejected("update", "'$set' is empty",
                                <<"details.updateOne">>),
              details |-> details, changelog |-> changelog]
        ELSE [call |-> Resolved("update", <<message.id>>,
                                <<"details.updateOne", "changelog.insertOne">>),
              details |-> IF Matched(NewObjectId(message.id))
                          THEN [details EXCEPT ![NewObjectId(message.id)] =
                                    Some(ApplySet(@[1], set))]
                          ELSE details,
              changelog |-> Append(changelog,
                                   LogEntry(message.id, "updated", set))]

\* a public method that calls its Impl whatever the state of the connection
DelegateUnguarded(op, message, impl) ==
    /\ Len(dbCalls) < MaxDbCalls
    /\ dbCalls' = Append(dbCalls, impl.call @@ [message |-> message])
    /\ details' = impl.details
    /\ changelog' = impl.changelog
    /\ UNCHANGED <<database, healthVars, nonDbVars>>

\* create, delete, query and update of GenericMongoDatabase: the test of
\* _connected and the collections, then the Impl.  The call is logged with
\* its message.
Delegate(op, message, impl) ==
    /\ Len(dbCalls) < MaxDbCalls
    /\ IF database # "ready"
       THEN /\ dbCalls' = Append(dbCalls, Rejected(op, NotReady, <<>>)
                                          @@ [message |-> message])
            /\ UNCHANGED <<details, changelog>>
       ELSE /\ dbCalls' = Append(dbCalls, impl.call @@ [message |-> message])
            /\ details' = impl.details
            /\ changelog' = impl.changelog
    /\ UNCHANGED <<database, healthVars, nonDbVars>>

create(message) ==
    /\ Inserted < MaxCreates
    /\ Delegate("create", message, createImpl(message))

delete(message) == Delegate("delete", message, deleteImpl(message))

query(message) == Delegate("query", message, queryImpl(message))

update(message, emptySetRefused) ==
    Delegate("update", message, updateImpl(message, emptySetRefused))

\* the messages clients send
CreateMessage(assetType, requiresAttention) ==
    [assetType |-> assetType, requiresAttention |-> requiresAttention,
     topic |-> Null, body |-> Some("something")]

DeleteMessage(id) == [id |-> id]

ReadMessage(assetType, id, requiresAttention) ==
    [assetType |-> assetType, id |-> id,
     requiresAttention |-> requiresAttention, topic |-> Null]

UpdateMessage(id, requiresAttention, attendedBy, body) ==
    [id |-> id, requiresAttention |-> requiresAttention,
     attendedBy |-> attendedBy, topic |-> Null, body |-> body]

\* the four operations on comments of this and of another service
NextIsolation ==
    \/ MongoConnectResolves
    \/ \E assetType \in AssetTypes : create(CreateMessage(assetType, Null))
    \/ \E oid \in 1..Len(Seeds) : delete(DeleteMessage(Hex(oid)))
    \/ \E assetType \in {Null} \cup {Some(a) : a \in AssetTypes} :
       \E id \in {Null, Some(Hex(Len(Seeds)))} :
            query(ReadMessage(assetType, id, Null))
    \/ \E oid \in 1..Len(Seeds) :
            update(UpdateMessage(Hex(oid), Null, Null, Some("new body")),
                   TRUE)

SpecIsolation == Init /\ [][NextIsolation]_vars

\* the id strings a client may send
IdStrings == {Hex(oid) : oid \in ObjectIds} \cup {Raw(oid) : oid \in ObjectIds}
             \cup {Malformed}

\* comments created and deleted by ids of every form
NextDelete ==
    \/ MongoConnectResolves
    \/ create(CreateMessage("validAsset", Null))
    \/ \E id \in IdStrings : delete(DeleteMessage(id))

SpecDelete == Init /\ [][NextDelete]_vars

\* comments created, flagged for attention and attended to
NextAttention ==
    \/ MongoConnectResolves
    \/ \E requiresAttention \in {Null, Some(TRUE), Some(FALSE)} :
            create(CreateMessage("validAsset", requiresAttention))
    \/ \E oid \in {1, Len(Seeds) + 1} :
       \E requiresAttention \in {Null, Some(TRUE), Some(FALSE)} :
       \E attendedBy \in {Null, Some("someone")} :
       \E emptySetRefused \in BOOLEAN :
            update(UpdateMessage(Hex(oid), requiresAttention, attendedBy,
                                 Null), emptySetRefused)

SpecAttention == Init /\ [][NextAttention]_vars

\* calls made before, after and without the answer of MongoClient.connect
NextMongo ==
    \/ MongoConnectResolves
    \/ MongoConnectRejects
    \/ create(CreateMessage("validAsset", Null))
    \/ \E oid \in 1..Len(Seeds) : delete(DeleteMessage(Hex(oid)))
    \/ query(ReadMessage(Null, Null, Null))
    \/ update(UpdateMessage(Hex(1), Some(TRUE), Null, Null), TRUE)

SpecMongo == Init /\ [][NextMongo]_vars

(***************************************************************************)
(* The database claims.                                                    *)
(***************************************************************************)
\* the calls of op that got as far as the Impl
ImplCalls(op) ==
    {n \in 1..Len(dbCalls) :
        dbCalls[n].op = op /\ (dbCalls[n].outcome = "rejected"
                                   => dbCalls[n].error # NotReady)}

\* C26: asset-type isolation.  Whatever create, query, update and delete
\* calls are made on a database constructed for the asset types
\* _assetType, the comments of other asset types are the ones that were
\* there before, unmodified; no query returns one; and a create with an
\* asset type outside _assetType is rejected with 'Invalid asset type'
\* without an operation on a collection.  Checked under SpecIsolation.
C26_AssetTypeIsolation ==
    /\ \A oid \in ObjectIds :
        IF oid <= Len(Seeds) /\ ~InAssetTypes(Seeds[oid])
        THEN details[oid] = Some(Seeds[oid])
        ELSE details[oid] # Null => InAssetTypes(details[oid][1])
    /\ \A n \in ImplCalls("query") :
        dbCalls[n].outcome = "resolved" =>
            \A m \in 1..Len(dbCalls[n].value) :
                dbCalls[n].value[m].assetType \in Elements(_assetType)
    /\ \A n \in ImplCalls("create") :
        dbCalls[n].message.assetType \notin Elements(_assetType) =>
            /\ dbCalls[n].outcome = "rejected"
            /\ dbCalls[n].error = "Invalid asset type"
            /\ dbCalls[n].ops = <<>>

\* a create for another asset type was refused, the delete of another
\* service's comment matched nothing, and a query returned comments
C26_Witness ==
    /\ \E n \in ImplCalls("create") :
        dbCalls[n].message.assetType = "otherAsset"
    /\ \E n \in ImplCalls("delete") :
        /\ ~InAssetTypes(Seeds[NewObjectId(dbCalls[n].message.id)])
        /\ dbCalls[n].outcome = "rejected"
    /\ \E n \in ImplCalls("query") :
        dbCalls[n].outcome = "resolved" /\ dbCalls[n].value # <<>>


\* the call a step has added to dbCalls
NewCall == dbCalls'[Len(dbCalls')]

\* a step that is a call of op
CallOf(op) == Len(dbCalls') = Len(dbCalls) + 1 /\ NewCall.op = op

\* C27: a delete with the id of a stored comment of an allowed asset type
\* removes exactly that comment and resolves to [id]; a delete with a
\* malformed object id, or with an id that matches no such comment, is
\* rejected and leaves the details collection as it was.  Checked under
\* SpecDelete.
C27_Delete ==
    [][CallOf("delete") =>
        LET id == NewCall.message.id
        IN  IF database = "ready" /\ ObjectIdIsValid(id)
                 /\ Matched(NewObjectId(id))
            THEN /\ details' = [details EXCEPT ![NewObjectId(id)] = Null]
                 /\ NewCall.outcome = "resolved"
                 /\ NewCall.value = <<id>>
            ELSE /\ details' = details
                 /\ NewCall.outcome = "rejected"]_vars

\* the seeded comment was deleted by its id, the other seed is still
\* there, and a delete of an id that matched nothing was rejected
C27_Witness ==
    /\ \E n \in ImplCalls("delete") :
        /\ dbCalls[n].message.id = Hex(1)
        /\ dbCalls[n].outcome = "resolved"
        /\ dbCalls[n].value = <<Hex(1)>>
    /\ details[1] = Null
    /\ \A oid \in 2..Len(Seeds) : details[oid] = Some(Seeds[oid])
    /\ \E n \in ImplCalls("delete") :
        /\ dbCalls[n].outcome = "rejected"
        /\ dbCalls[n].error = "invalid entity ID"


\* what holds of every comment of this database's asset types
AttentionInvariant ==
    \A oid \in ObjectIds :
        (details[oid] # Null /\ InAssetTypes(details[oid][1])) =>
            LET doc == details[oid][1]
            IN  /\ doc.requiredAttention =>
                       doc.attendedBy = Null /\ doc.attendedAt = Null
                /\ doc.attendedBy # Null <=> doc.attendedAt # Null

\* the step is an update that reached the server and matched a comment
UpdateMatched ==
    /\ CallOf("update")
    /\ NewCall.outcome = "resolved"
    /\ Matched(NewObjectId(NewCall.message.id))

\* the comment the update of this step was for, after the step
Updated == details'[NewObjectId(NewCall.message.id)][1]

\* C28, as stated: every comment satisfies requiredAttention => attendedBy
\* and attendedAt are null, and attendedBy is null exactly when attendedAt
\* is; an update with requiresAttention true clears attendedBy and
\* attendedAt, and an update with attendedBy sets requiredAttention to
\* false and sets attendedAt.  Checked under SpecAttention.
C28_AttentionAsStated ==
    /\ []AttentionInvariant
    /\ [][UpdateMatched =>
            /\ NewCall.message.requiresAttention = Some(TRUE) =>
                   Updated.attendedBy = Null /\ Updated.attendedAt = Null
            /\ NewCall.message.attendedBy # Null =>
                   /\ Updated.requiredAttention = FALSE
                   /\ Updated.attendedBy = NewCall.message.attendedBy
                   /\ Updated.attendedAt # Null]_vars

\* C28, amended: the same invariant; an update with attendedBy sets
\* requiredAttention to false, attendedBy and attendedAt, whatever its
\* requiresAttention says; an update with requiresAttention true and no
\* attendedBy sets requiredAttention and clears attendedBy and attendedAt.
\* Checked under SpecAttention.
C28_Attention ==
    /\ []AttentionInvariant
    /\ [][UpdateMatched =>
            /\ (/\ NewCall.message.requiresAttention = Some(TRUE)
                /\ NewCall.message.attendedBy = Null) =>
                   /\ Updated.requiredAttention = TRUE
                   /\ Updated.attendedBy = Null
                   /\ Updated.attendedAt = Null
            /\ NewCall.message.attendedBy # Null =>
                   /\ Updated.requiredAttention = FALSE
                   /\ Updated.attendedBy = NewCall.message.attendedBy
                   /\ Updated.attendedAt # Null]_vars

\* a comment that was attended to has been flagged for attention again
C28_Witness ==
    /\ \E n \in ImplCalls("update") : \E m \in ImplCalls("update") :
        /\ n < m
        /\ dbCalls[n].message.id = Hex(1) /\ dbCalls[m].message.id = Hex(1)
        /\ dbCalls[n].message.attendedBy = Some("someone")
        /\ dbCalls[m].message.requiresAttention = Some(TRUE)
        /\ dbCalls[m].message.attendedBy = Null
    /\ details[1] # Null
    /\ details[1][1].requiredAttention = TRUE
    /\ details[1][1].attendedBy = Null


\* what the Impl of the new call's operation gives for its message
ImplOf(call) ==
    IF call.op = "create" THEN createImpl(call.message)
    ELSE IF call.op = "delete" THEN deleteImpl(call.message)
    ELSE IF call.op = "query" THEN queryImpl(call.message)
    ELSE updateImpl(call.message, TRUE)

\* C29: create, delete, query and update on a database whose connect has
\* not completed, or has failed, are rejected with an error and perform no
\* operation on a collection; once 'ready' has been emitted they do what
\* the matching Impl does.  Checked under SpecMongo.
C29_ReadyGuard ==
    [][Len(dbCalls') = Len(dbCalls) + 1 =>
        IF database # "ready"
        THEN /\ NewCall.outcome = "rejected"
             /\ NewCall.error = NotReady
             /\ NewCall.ops = <<>>
             /\ details' = details /\ changelog' = changelog
        ELSE /\ NewCall = ImplOf(NewCall).call @@ [message |-> NewCall.message]
             /\ details' = ImplOf(NewCall).details
             /\ changelog' = ImplOf(NewCall).changelog]_vars

\* a call was refused before the connection was there and the same call
\* went through after it
C29_Witness ==
    /\ database = "ready"
    /\ \E n \in 1..Len(dbCalls) : \E m \in 1..Len(dbCalls) :
        /\ n < m
        /\ dbCalls[n].op = "update" /\ dbCalls[m].op = "update"
        /\ dbCalls[n].outcome = "rejected" /\ dbCalls[n].error = NotReady
        /\ dbCalls[m].outcome = "resolved"
    /\ details[1][1].requiredAttention = TRUE


(***************************************************************************)
(* Two handlers in one process, and bind() before and after binder().      *)
(***************************************************************************)
Handlers == {1, 2}

InitRebind == ReadyHandlers(Handlers, NoListeners, NoEvents)

NextRebind ==
    \/ \E h \in Handlers : binder(h)
    \/ \E l \in 1..NumListeners :
          bind(l, "update", KeyRegExp(<<"foo">>), "returns", "other")
    \/ \E h \in Handlers, rk \in RoutingKeys :
          handleIncoming(h, "{\"msg_id\":3,\"msg_intention\":\"UPDATE\",\"status\":0}", rk)
    \/ \E i \in 1..MaxFrames : IncomingValidated(i, "true")

SpecRebind == InitRebind /\ [][NextRebind]_vars

\* the step is the call number l of bind()
BindCall(l) ==
    /\ listeners[l] = NoListener
    /\ listeners'[l].how \in {"bind", "threw"}

\* C30: bind() throws, and registers nothing, if binder() has never been
\* called; binder(h2) after binder(h1) leaves the bindings made so far
\* registered on h1, where they keep firing for the messages of h1 and of
\* h1 only; and a bind() registers on the handler of the latest binder()
\* and on no other.  Checked under SpecRebind.
C30_BinderReplacement ==
    /\ [][\A l \in DOMAIN listeners : BindCall(l) =>
            IF brokerHandlerInstance = 0
            THEN /\ listeners'[l].how = "threw"
                 /\ events' = events
            ELSE /\ listeners'[l].how = "bind"
                 /\ listeners'[l].handler = brokerHandlerInstance
                 /\ \A h \in Handlers : \A ch \in Channels :
                      events'[h][ch] =
                          IF h = brokerHandlerInstance
                             /\ ch = listeners'[l].event
                          THEN Append(events[h][ch], l)
                          ELSE events[h][ch]]_vars
    /\ [][brokerHandlerInstance' # brokerHandlerInstance =>
            events' = events /\ listeners' = listeners]_vars
    /\ [][\A l \in DOMAIN listeners : \A i \in 1..Len(inbox) :
            listeners[l].how = "bind" =>
                (NewInvocationsFor(l, i) > 0
                    <=> /\ inbox[i].handler = listeners[l].handler
                        /\ NewEmissionsFor(i, listeners[l].event) > 0
                        /\ Matches(listeners[l].routingKey,
                                   inbox[i].routingKey))]_vars

\* a binding made on handler 1 has fired for a message of handler 1 after
\* a binding was made on handler 2, which fired for a message of handler 2
C30_Witness ==
    /\ listeners[1].how = "bind" /\ listeners[1].handler = 1
    /\ listeners[2].how = "bind" /\ listeners[2].handler = 2
    /\ events[1]["update"] = <<1>> /\ events[2]["update"] = <<2>>
    /\ \E a \in 1..Len(invoked) : \E b \in 1..Len(invoked) :
        /\ a < b
        /\ invoked[a][1] = 2 /\ inbox[invoked[a][2]].handler = 2
        /\ invoked[b][1] = 1 /\ inbox[invoked[b][2]].handler = 1

(***************************************************************************)
(* Two handler instances of one process that fail and reconnect: the       *)
(* module-level backoffTime is the only delay there is.                    *)
(***************************************************************************)
InitShared == InitConn(Handlers)

NextShared ==
    \/ \E h \in Handlers : ConnectRejects(h)
    \/ \E h \in Handlers : ConnectResolves(h)
    \/ \E h \in Handlers : CreateResponseChannelOk(h)
    \/ \E h \in Handlers : SetupFails(h)
    \/ \E h \in Handlers : ConnectionError(h)

SpecShared == InitShared /\ [][NextShared]_vars

\* the connection failures handler h has handled
Handled(h) == attemptFailures[h] + connErrors[h]

\* C31: the backoff delay is one process-wide value: whenever a handler
\* instance handles a connection failure, the delay it arms is
\* min(5000 * 1.2^k, 120000) with k the failures handled so far by all
\* instances of the process together, and the delay left for the next
\* reconnect of any instance is 5000 * 1.2^(k+1).  Checked under SpecShared.
C31_SharedBackoff ==
    [][\A h \in Handlers :
          Handled(h)' > Handled(h) =>
              /\ lastDelay' = DecMin(BackoffAfter(Handled(1) + Handled(2)),
                                     Dec(maximumBackoffTime))
              /\ backoffTime' = BackoffAfter(Handled(1) + Handled(2) + 1)]_vars

\* handler 2 has armed its first reconnect with the delay that one failure
\* of handler 1 had raised to 6000
C31_Witness ==
    /\ Handled(1) = 1
    /\ Handled(2) = 1
    /\ timers = <<Dec(5000), Dec(6000)>>
    /\ pc[1] = "failed"
    /\ lastDelay = Dec(6000)

(***************************************************************************)
(* Replies, checked under SpecDispatch.                                    *)
(***************************************************************************)
\* the calls of send made by reply callbacks that have run to their end
CompletedReplies ==
    {k \in 1..Len(sends) :
        sends[k].for # 0 /\ sends[k].stage \notin {"validating", "no-channel"}}

\* C32: with a response channel, each call of a reply callback publishes
\* exactly one message, the payload when the outgoing validator accepts it
\* and the fallback otherwise, never both; calls are not deduplicated, so
\* every call for the same inbound message publishes a message of its own.
C32_OnePublishPerReply ==
    \A k \in CompletedReplies :
        /\ Len(PublishedBy(k)) = 1
        /\ PublishedBy(k)[1].body =
              IF sends[k].validator = "true" THEN sends[k].response
                                            ELSE Fallback(sends[k])

(***************************************************************************)
(* Handlers that never complete: every subscriber returns a promise that   *)
(* never settles, and the handlers of the first message never call their   *)
(* reply callback.  The incoming validator answers true.                   *)
(***************************************************************************)
PendingListeners ==
    [l \in 1..Len(ChannelOrder) |->
        [how |-> "on", handler |-> 1, event |-> ChannelOrder[l],
         routingKey |-> ANY, does |-> "pending", to |-> "other",
         unbound |-> FALSE]]

InitPending == ReadyWith(PendingListeners, PlainEvents)

PendingFrames ==
    { "{\"msg_id\":1,\"msg_intention\":\"CREATE\",\"status\":0}",
      "{\"msg_id\":6,\"status\":0}" }

NextPending ==
    \/ \E b \in PendingFrames : handleIncoming(1, b, <<"foo", "update">>)
    \/ \E i \in 1..MaxFrames : IncomingValidated(i, "true")
    \/ \E i \in 2..MaxFrames, r \in ResponseKinds : handleReply(i, r)
    \/ \E k \in 1..MaxReplies, o \in ValidatorOutcomes : OutgoingValidated(k, o)

SpecPending == InitPending /\ [][NextPending]_vars

\* the continuation of handleIncoming after its await is a microtask: it
\* runs once the validator has answered
SpecPendingLive ==
    SpecPending /\ WF_vars(\E i \in 1..MaxFrames : IncomingValidated(i, "true"))

\* delivery i has been dispatched to its handlers
DispatchedToHandlers(i) ==
    /\ Len(inbox) >= i
    /\ inbox[i].stage = "dispatched"
    /\ \E k \in 1..Len(invoked) : invoked[k][2] = i

\* C33: when the handlers of the first message m1 never complete and never
\* call their reply callback, no reply is ever published for m1, and every
\* message delivered after it is eventually dispatched to its handlers,
\* whose reply callback then publishes: the dispatcher does not wait for a
\* handler before it delivers the next message.  Checked under
\* SpecPendingLive.
C33_NeverWaitsForHandler ==
    /\ [](\A j \in 1..Len(published) : published[j].for # 1)
    /\ [](\A k \in 1..Len(sends) :
            sends[k].stage \in {"published", "fallback"}
                => Len(PublishedBy(k)) = 1 /\ PublishedBy(k)[1].for = sends[k].for)
    /\ \A i \in 2..MaxFrames :
          (Len(inbox) >= i) ~> DispatchedToHandlers(i)

\* the second message has been answered while the handler of the first,
\* invoked before, is still running and has not replied
C33_Witness ==
    /\ DispatchedToHandlers(1)
    /\ 1 \in HandlersRunning
    /\ DispatchedToHandlers(2)
    /\ invoked[1][2] = 1
    /\ \A k \in 1..Len(sends) : sends[k].for = 2
    /\ \E j \in 1..Len(published) : published[j].for = 2

\* C34: handleIncoming completes without throwing and without a rejected
\* promise for every frame, a JSON value that is no object (null) and an
\* incoming validator that throws or rejects included: such a frame is
\* dropped.  Checked under SpecDispatch.
C34_HandleIncomingNeverRejects ==
    \A i \in 1..Len(inbox) :
        /\ inbox[i].stage \notin {"rejected", "threw"}
        /\ (inbox[i].stage # "validating"
              /\ (inbox[i].content = JSONNull \/ inbox[i].validator = "throws"))
             => inbox[i].stage = "dropped"

\* C35: each failed connection attempt (the connect function rejects, or
\* setupConnection throws) delivers exactly one error event to the
\* subscribers of error, and leaves no rejection for the code that
\* constructed the handler.  Checked under Spec.
C35_OneErrorPerFailedAttempt ==
    [][\A h \in DOMAIN pc :
          attemptFailures'[h] > attemptFailures[h] =>
              /\ errorEvents'[h] = errorEvents[h] + 1
              /\ unhandledRejections' = unhandledRejections]_vars

(***************************************************************************)
(* The connection closes while handlers are running and reply later.       *)
(***************************************************************************)
NextClose ==
    \/ \E b \in PendingFrames : handleIncoming(1, b, <<"foo", "update">>)
    \/ \E i \in 1..MaxFrames : IncomingValidated(i, "true")
    \/ ConnectionClose(1)
    \/ \E i \in 1..MaxFrames, r \in ResponseKinds : handleReply(i, r)
    \/ \E k \in 1..MaxReplies, o \in ValidatorOutcomes : OutgoingValidated(k, o)

SpecClose == InitPending /\ [][NextClose]_vars

\* the step calls publish on the response channel handler h holds
PublishesOn(h) ==
    /\ Len(published') > Len(published)
    /\ sends[published'[Len(published')].send].handler = h

\* C36: once the connection has emitted 'close', a reply callback called by
\* a handler that is still running does not publish on the channel of the
\* closed connection: send is a logged no-op, or publishes on the response
\* channel of a connection established since.  Checked under SpecClose.
C36_NoPublishOnClosedConnection ==
    /\ [][\A h \in DOMAIN pc :
            PublishesOn(h) =>
                ~(connClosed[h] /\ responseChannel[h] = connection[h])]_vars
    /\ [][\A h \in DOMAIN pc :
            (Len(sends') > Len(sends) /\ connClosed[h]
                /\ sends'[Len(sends')].handler = h
                /\ responseChannel[h] = connection[h])
              => sends'[Len(sends')].stage = "no-channel"]_vars

\* C38: update resolves to [id] and writes an 'updated' changelog entry only
\* if a stored comment of an allowed asset type with that id was matched;
\* an update whose id matches no such comment is rejected, as a delete is,
\* and leaves the details collection and the changelog as they were.
\* Checked under SpecAttention.
C38_UpdateOnlyIfMatched ==
    [][CallOf("update") =>
        LET id == NewCall.message.id
        IN  /\ NewCall.outcome = "resolved" =>
                /\ NewCall.value = <<id>>
                /\ Matched(NewObjectId(id))
                /\ Len(changelog') = Len(changelog) + 1
                /\ changelog'[Len(changelog')].action = "updated"
            /\ ~(ObjectIdIsValid(id) /\ Matched(NewObjectId(id))) =>
                /\ NewCall.outcome = "rejected"
                /\ details' = details
                /\ changelog' = changelog]_vars

(***************************************************************************)
(* CommentBinder.ts.  bindCommentDatabase subscribes to the channels       *)
(* query, delete, update and create; each callback passes the message to   *)
(* execute when the routing key is the prefix followed by its operation.   *)
(* execute calls the database method of the message's intention, awaits    *)
(* it, and calls send.  The message the database gets is the delivery's    *)
(* content; `delivery` stands for the identity of that object.             *)
(***************************************************************************)
HTTP_STATUS_OK == 200
HTTP_STATUS_BAD_REQUEST == 400

commentRoutingPrefix == <<"foo">>

\* broker.on('query', ..), broker.on('delete', ..), broker.on('update', ..),
\* broker.on('create', ..)
CommentChannels == <<"query", "delete", "update", "create">>

\* the operation each callback compares the routing key with
CommentOperations == <<"read", "delete", "update", "create">>

CommentListeners ==
    [l \in 1..Len(CommentChannels) |->
        [how |-> "on", handler |-> 1, event |-> CommentChannels[l],
         routingKey |-> ANY, does |-> "execute", to |-> "other",
         unbound |-> FALSE]]

CommentEvents ==
    [ch \in Channels |->
        SelectSeq(<<1, 2, 3, 4>>, LAMBDA l : CommentChannels[l] = ch)]

InitComment == ReadyWith(CommentListeners, CommentEvents)

\* routingKey === `${commentRoutingPrefix}.<operation>` in the callback that
\* was called with delivery i
PassedToExecute(i) ==
    /\ i \in 1..Len(inbox)
    /\ \E k \in 1..Len(invoked) :
          /\ invoked[k][2] = i
          /\ listeners[invoked[k][1]].does = "execute"
          /\ inbox[i].routingKey =
                commentRoutingPrefix
                    \o <<CommentOperations[invoked[k][1]]>>

\* the bodies the messages of an intention may carry
CommentBodies(intention) ==
    CASE intention = "CREATE" ->
            {CreateMessage("validAsset", Null)}
      [] intention = "DELETE" ->
            {DeleteMessage(Hex(oid)) : oid \in {1, Len(Seeds) + 1}}
      [] intention = "READ" -> {ReadMessage(Null, Null, Null)}
      [] intention = "UPDATE" ->
            {UpdateMessage(Hex(1), Some(TRUE), Null, Null)}
      [] OTHER -> {EmptyObject}

\* the database calls execute has made and awaited
Executions == {n \in 1..Len(dbCalls) : "delivery" \in DOMAIN dbCalls[n].message}

\* the calls of send for delivery i
RepliesTo(i) == {k \in 1..Len(sends) : sends[k].for = i}

\* the reply execute sends
CommentResponse(content, status, result) ==
    [msg_intention |-> content.msg_intention, msg_id |-> content.msg_id,
     status |-> status, result |-> result]

\* execute, from the call by the callback to the end of the try: the
\* database method of the intention, called and awaited.  An intention that
\* is none of the four calls nothing and goes on to send.
execute(i) ==
    /\ PassedToExecute(i)
    /\ \A n \in Executions : dbCalls[n].message.delivery # i
    /\ RepliesTo(i) = {}
    /\ Cardinality(Executions) < MaxReplies
    /\ \E body \in CommentBodies(inbox[i].content.msg_intention) :
         LET content == inbox[i].content
             message == body @@ [msg_id |-> content.msg_id,
                                 msg_intention |-> content.msg_intention,
                                 delivery |-> i]
         IN  CASE content.msg_intention = "CREATE" -> create(message)
               [] content.msg_intention = "DELETE" -> delete(message)
               [] content.msg_intention = "READ" -> query(message)
               [] content.msg_intention = "UPDATE" -> update(message, TRUE)
               [] OTHER ->
                    send(1, i, content.msg_id, content.msg_intention,
                         CommentResponse(content, HTTP_STATUS_BAD_REQUEST,
                                         <<>>))

\* an execute that sets the status before it awaits the database
executeSettledStatusFirst(n) ==
    /\ n \in Executions
    /\ RepliesTo(dbCalls[n].message.delivery) = {}
    /\ LET i == dbCalls[n].message.delivery
       IN  send(1, i, inbox[i].content.msg_id,
                inbox[i].content.msg_intention,
                CommentResponse(inbox[i].content, HTTP_STATUS_OK,
                    IF dbCalls[n].outcome = "resolved"
                    THEN dbCalls[n].value ELSE <<>>))

\* execute after the await of database call n: status and result are those
\* of the operation if it resolved, 500 and [] if the catch ran; then send
executeSettled(n) ==
    /\ n \in Executions
    /\ RepliesTo(dbCalls[n].message.delivery) = {}
    /\ LET i == dbCalls[n].message.delivery
       IN  send(1, i, inbox[i].content.msg_id,
                inbox[i].content.msg_intention,
                CommentResponse(inbox[i].content,
                    IF dbCalls[n].outcome = "resolved"
                    THEN HTTP_STATUS_OK
                    ELSE HTTP_STATUS_INTERNAL_SERVER_ERROR,
                    IF dbCalls[n].outcome = "resolved"
                    THEN dbCalls[n].value ELSE <<>>))

\* the frames delivered with their routing keys: the key of the message's
\* operation, and a key of another prefix and operation
CommentDeliveries ==
    { <<"{\"msg_id\":1,\"msg_intention\":\"CREATE\",\"status\":0}",
        <<"foo", "create">>>>,
      <<"{\"msg_id\":2,\"msg_intention\":\"READ\",\"status\":0}",
        <<"foo", "read">>>>,
      <<"{\"msg_id\":3,\"msg_intention\":\"UPDATE\",\"status\":0}",
        <<"foo", "update">>>>,
      <<"{\"msg_id\":4,\"msg_intention\":\"DELETE\",\"status\":0}",
        <<"foo", "delete">>>>,
      <<"{\"msg_id\":4,\"msg_intention\":\"DELETE\",\"status\":0}",
        <<"bar", "update">>>> }

NextComment ==
    \/ MongoConnectResolves
    \/ \E d \in CommentDeliveries : handleIncoming(1, d[1], d[2])
    \/ \E i \in 1..MaxFrames : IncomingValidated(i, "true")
    \/ \E i \in 1..MaxFrames : execute(i)
    \/ \E n \in 1..MaxDbCalls : executeSettled(n)

SpecComment == InitComment /\ [][NextComment]_vars

\* the continuation of execute after its await runs once the promise of
\* the database call has settled
SpecCommentLive ==
    SpecComment /\ WF_vars(\E n \in 1..MaxDbCalls : executeSettled(n))

\* the database call execute made for delivery i
ExecutionsOf(i) == {n \in Executions : dbCalls[n].message.delivery = i}

\* C37: for every message bindCommentDatabase passes to execute, send is
\* called exactly once, after the database operation has settled; the reply
\* carries the message's msg_id and msg_intention, status 200 and the
\* operation's result if the operation resolved, status 500 and an empty
\* result if it threw (400 and an empty result for an intention that is
\* none of the four).  A message with any other routing key causes no
\* database call and no reply.  Checked under SpecCommentLive.
C37_ExecuteRepliesOnce ==
    /\ [](\A i \in 1..Len(inbox) :
            /\ Cardinality(RepliesTo(i)) <= 1
            /\ Cardinality(ExecutionsOf(i)) <= 1
            /\ ~PassedToExecute(i)
                  => RepliesTo(i) = {} /\ ExecutionsOf(i) = {})
    /\ [](\A k \in 1..Len(sends) :
            LET i == sends[k].for
                content == inbox[i].content
                r == sends[k].response
            IN  /\ PassedToExecute(i)
                /\ r.msg_id = content.msg_id
                /\ r.msg_intention = content.msg_intention
                /\ IF content.msg_intention
                        \notin {"CREATE", "DELETE", "READ", "UPDATE"}
                   THEN r.status = 400 /\ r.result = <<>>
                   ELSE \E n \in ExecutionsOf(i) :
                          /\ dbCalls[n].op =
                                CASE content.msg_intention = "CREATE" -> "create"
                                  [] content.msg_intention = "DELETE" -> "delete"
                                  [] content.msg_intention = "READ" -> "query"
                                  [] content.msg_intention = "UPDATE" -> "update"
                          /\ IF dbCalls[n].outcome = "resolved"
                             THEN /\ r.status = 200
                                  /\ r.result = dbCalls[n].value
                             ELSE /\ r.status = 500
                                  /\ r.result = <<>>)
    /\ (\E n \in Executions : RepliesTo(dbCalls[n].message.delivery) = {})
          ~> (\A n \in Executions :
                 RepliesTo(dbCalls[n].message.delivery) # {})

\* a delete that the database rejected has been answered with status 500
\* and an empty result, while a message with another routing key was
\* dispatched and neither reached the database nor was answered
C37_Witness ==
    /\ Len(inbox) = 2
    /\ inbox[2].stage = "dispatched" /\ ~PassedToExecute(2)
    /\ PassedToExecute(1)
    /\ Len(dbCalls) = 1
    /\ dbCalls[1].op = "delete" /\ dbCalls[1].outcome = "rejected"
    /\ database = "ready"
    /\ Len(sends) = 1
    /\ sends[1].for = 1
    /\ sends[1].response.status = 500

=============================================================================
